---- MODULE Spec2Model ----
(***************************************************************************)
(* A model of the Google Sheets data-access layer of abzar-bot             *)
(* (src/src/gs_client.py): header canonicalization, the retry executor,    *)
(* the TTL cache, append_order and update_order_status.                    *)
(*                                                                         *)
(* Strings are sequences of one-character strings.  An optional value      *)
(* (Python's None or a value) is a sequence of length at most one.         *)
(***************************************************************************)
EXTENDS Integers, Sequences, FiniteSets, TLC

\* ------------------------------------------------------------------------
\* Bounds of the model
\* ------------------------------------------------------------------------

\* longest input string of the canonicalization specification
MaxLen == 3
\* longest header string of the header-equivalence specification
MaxHdrLen == 2
\* most edits applied to one header in the header-equivalence specification
MaxEdits == 2
\* largest maxAttempts handed to the retry executor on its own
MaxAttempts == 5
\* most leading failures of the operation handed to the retry executor
MaxFailures == 6
\* last tick of the monotonic clock in the cache specification
MaxTime == 4
\* largest TTL handed to the cache
MaxTTL == 2
\* most data rows of the orders worksheet when a call begins
MaxRows == 2

\* ------------------------------------------------------------------------
\* Optional values and characters
\* ------------------------------------------------------------------------

None == <<>>
Some(v) == <<v>>

ZWNJ == "\\u200c"
ZWJ == "\\u200d"
LRM == "\\u200e"
RLM == "\\u200f"
NBSP == "\\xa0"

UpperCase == <<"A", "B", "C", "D", "E", "F", "G", "H", "I", "J", "K", "L", "M",
               "N", "O", "P", "Q", "R", "S", "T", "U", "V", "W", "X", "Y", "Z">>
LowerCase == <<"a", "b", "c", "d", "e", "f", "g", "h", "i", "j", "k", "l", "m",
               "n", "o", "p", "q", "r", "s", "t", "u", "v", "w", "x", "y", "z">>

IsUpper(c) == \E k \in DOMAIN UpperCase : UpperCase[k] = c
IsLower(c) == \E k \in DOMAIN LowerCase : LowerCase[k] = c

\* str.lower() on one character
LowerChar(c) ==
    IF IsUpper(c)
    THEN LowerCase[CHOOSE k \in DOMAIN UpperCase : UpperCase[k] = c]
    ELSE c

\* str.upper() on one character
UpperChar(c) ==
    IF IsLower(c)
    THEN UpperCase[CHOOSE k \in DOMAIN LowerCase : LowerCase[k] = c]
    ELSE c

\* the characters str.strip() and str.split() treat as whitespace:
\* U+0020 and U+00A0 are whitespace, the zero-width characters are not
IsSpace(c) == c \in {" ", NBSP}

\* ------------------------------------------------------------------------
\* Python string operations used by the code
\* ------------------------------------------------------------------------

RECURSIVE LStrip(_)
LStrip(s) ==
    IF s # <<>> /\ IsSpace(Head(s)) THEN LStrip(Tail(s)) ELSE s

RECURSIVE RStrip(_)
RStrip(s) ==
    IF s # <<>> /\ IsSpace(s[Len(s)]) THEN RStrip(SubSeq(s, 1, Len(s) - 1)) ELSE s

\* s.strip()
Strip(s) == RStrip(LStrip(s))

\* s.replace(ch, "")
RemoveChar(s, ch) == SelectSeq(s, LAMBDA c : c # ch)

\* s.replace(a, b) for single characters
ReplaceChar(s, a, b) == [i \in DOMAIN s |-> IF s[i] = a THEN b ELSE s[i]]

\* s.lower()
Lower(s) == [i \in DOMAIN s |-> LowerChar(s[i])]

\* ch in s
Contains(s, ch) == \E i \in DOMAIN s : s[i] = ch

\* s.split(ch, 1)[0]: the text before the first ch
BeforeFirst(s, ch) ==
    IF Contains(s, ch)
    THEN SubSeq(s, 1, (CHOOSE i \in DOMAIN s :
                          s[i] = ch /\ \A j \in 1..(i - 1) : s[j] # ch) - 1)
    ELSE s

\* s.split(): the maximal runs of non-whitespace characters, in order
RECURSIVE SplitWords(_)
SplitWords(s) ==
    LET t == LStrip(s)
    IN  IF t = <<>>
        THEN <<>>
        ELSE LET ends == {i \in 1..Len(t) : i = Len(t) \/ IsSpace(t[i + 1])}
                 e == CHOOSE i \in ends : \A j \in ends : i <= j
             IN  <<SubSeq(t, 1, e)>> \o SplitWords(SubSeq(t, e + 1, Len(t)))

\* " ".join(words)
RECURSIVE JoinSpace(_)
JoinSpace(words) ==
    IF words = <<>> THEN <<>>
    ELSE IF Len(words) = 1 THEN words[1]
    ELSE words[1] \o <<" ">> \o JoinSpace(Tail(words))

\* ------------------------------------------------------------------------
\* _canon (gs_client.py 99-111)
\* ------------------------------------------------------------------------

\* the characters the loop of line 105 removes, in its order
CanonStripped == <<ZWNJ, RLM, LRM, NBSP>>

RECURSIVE RemoveAll(_, _)
RemoveAll(s, chars) ==
    IF chars = <<>> THEN s ELSE RemoveAll(RemoveChar(s, Head(chars)), Tail(chars))

\* lines 108-109: cut at the first "(" and strip
CutParenthesis(s) == IF Contains(s, "(") THEN Strip(BeforeFirst(s, "(")) ELSE s

\* a _canon that forgets to collapse the whitespace left inside the text
CollapseSpacesSkipped(s) == s

\* line 110: " ".join(s.split())
CollapseSpaces(s) == JoinSpace(SplitWords(s))

\* lines 104-111: _canon of a string, the "if not s" test of line 102 included
CanonStr(s) ==
    IF s = <<>>
    THEN <<>>
    ELSE LET s1 == Strip(s)
             s2 == RemoveAll(s1, CanonStripped)
             s3 == Lower(ReplaceChar(s2, "_", " "))
             s4 == CutParenthesis(s3)
         IN  CollapseSpaces(s4)

\* _canon of an optional string: "if not s: return ''" covers None and ""
_canon(o) == IF o = None THEN <<>> ELSE CanonStr(o[1])

\* ------------------------------------------------------------------------
\* _retrying (gs_client.py 82-93)
\* ------------------------------------------------------------------------

\* line 83: the default of _tries
DefaultTries == 5

\* line 84: the default of _base, 0.4 s, in tenths of a second
DefaultBase == 4

\* an "i == max_tries" that lets the loop run out without raising
IsLastTryOffByOne(idx, tries) == idx = tries

\* line 89: i == max_tries - 1
IsLastTry(idx, tries) == idx = tries - 1

\* a delay that grows by base with each attempt instead of doubling
SleepLinear(idx) == DefaultBase * (idx + 1)

\* line 91: sleep_s = base * (2**i)
SleepFor(idx) == DefaultBase * 2 ^ idx

\* the exception raised by the n-th invocation of a remote operation
OpError(op, n) == [op |-> op, invocation |-> n]

\* line 92: _log("retry", attempt=i + 1, sleep=sleep_s, error=str(e))
RetryEvent(idx, e) ==
    [event |-> "retry", attempt |-> idx + 1, sleep |-> SleepFor(idx), error |-> e]

\* ------------------------------------------------------------------------
\* The TTL cache (gs_client.py 207-224)
\* ------------------------------------------------------------------------

\* the named resources the read paths cache (lines 231, 282, 292)
CacheKeys == {"products", "config_bot", "config_site"}

\* an expiry test with the operands of the subtraction swapped
ExpiredSwapped(t, ts, ttl) == ts - t > ttl

\* line 218: now - ts > ttl
Expired(t, ts, ttl) == t - ts > ttl

\* lines 212-220: _get_cache(key, ttl) at monotonic time t on cache store c;
\* an entry is a (ts, data) pair, always truthy, so "not item" is "absent"
_get_cache(c, key, ttl, t) ==
    IF c[key] = None THEN None
    ELSE IF Expired(t, c[key][1][1], ttl) THEN None
    ELSE Some(c[key][1][2])

\* lines 223-224: _set_cache(key, value) at monotonic time t on cache store c
_set_cache(c, key, value, t) == [c EXCEPT ![key] = Some(<<t, value>>)]

\* ------------------------------------------------------------------------
\* Header aliases of the orders worksheet (gs_client.py 164-184)
\* ------------------------------------------------------------------------

\* strings of the model, spelled out
order_no_key == <<"o", "r", "d", "e", "r", "_", "n", "o">>
status_key == <<"s", "t", "a", "t", "u", "s">>
extra_key == <<"e", "x", "t", "r", "a">>

\* lines 164-179: _ORDER_ALIASES as (key, aliases) pairs in the order of the
\* dict; a character outside ASCII is written as its escape
_ORDER_ALIASES == <<
    \* "order_no": "order no", "order" and 2 Persian spellings
    <<<<"o", "r", "d", "e", "r", "_", "n", "o">>,
      {<<"o", "r", "d", "e", "r", " ", "n", "o">>,
       <<"o", "r", "d", "e", "r">>,
       <<"\\u0634", "\\u0645", "\\u0627", "\\u0631", "\\u0647", " ",
         "\\u0633", "\\u0641", "\\u0627", "\\u0631", "\\u0634">>,
       <<"\\u06a9", "\\u062f", " ", "\\u0633", "\\u0641", "\\u0627",
         "\\u0631", "\\u0634">>}>>,
    \* "status": "status" and 1 Persian spellings
    <<<<"s", "t", "a", "t", "u", "s">>,
      {<<"s", "t", "a", "t", "u", "s">>,
       <<"\\u0648", "\\u0636", "\\u0639", "\\u06cc", "\\u062a">>}>>,
    \* "extra": "extra", "notes" and 4 Persian spellings
    <<<<"e", "x", "t", "r", "a">>,
      {<<"e", "x", "t", "r", "a">>,
       <<"\\u06cc", "\\u0627", "\\u062f", "\\u062f", "\\u0627", "\\u0634",
         "\\u062a">>,
       <<"\\u06cc", "\\u0627", "\\u062f", "\\u062f", "\\u0627", "\\u0634",
         "\\u062a", " ", "\\u0647", "\\u0627">>,
       <<"\\u06cc", "\\u0627", "\\u062f", "\\u062f", "\\u0627", "\\u0634",
         "\\u062a", "\\u200c", "\\u0647", "\\u0627">>,
       <<"n", "o", "t", "e", "s">>,
       <<"\\u062a", "\\u0648", "\\u0636", "\\u06cc", "\\u062d", "\\u0627",
         "\\u062a">>}>>,
    \* "created_at": "created at" and 1 Persian spellings
    <<<<"c", "r", "e", "a", "t", "e", "d", "_", "a", "t">>,
      {<<"c", "r", "e", "a", "t", "e", "d", " ", "a", "t">>,
       <<"\\u062a", "\\u0627", "\\u0631", "\\u06cc", "\\u062e", " ",
         "\\u062b", "\\u0628", "\\u062a">>}>>,
    \* "customer_name": "customer name" and 1 Persian spellings
    <<<<"c", "u", "s", "t", "o", "m", "e", "r", "_", "n", "a", "m", "e">>,
      {<<"c", "u", "s", "t", "o", "m", "e", "r", " ", "n", "a", "m", "e">>,
       <<"\\u0646", "\\u0627", "\\u0645", " ", "\\u06af", "\\u06cc",
         "\\u0631", "\\u0646", "\\u062f", "\\u0647">>}>>,
    \* "phone": "phone" and 2 Persian spellings
    <<<<"p", "h", "o", "n", "e">>,
      {<<"p", "h", "o", "n", "e">>,
       <<"\\u0645", "\\u0648", "\\u0628", "\\u0627", "\\u06cc", "\\u0644">>,
       <<"\\u062a", "\\u0644", "\\u0641", "\\u0646">>}>>,
    \* "items_json": "items json" and 2 Persian spellings
    <<<<"i", "t", "e", "m", "s", "_", "j", "s", "o", "n">>,
      {<<"i", "t", "e", "m", "s", " ", "j", "s", "o", "n">>,
       <<"\\u0627", "\\u0642", "\\u0644", "\\u0627", "\\u0645", "(", "j",
         "s", "o", "n", ")">>,
       <<"\\u0627", "\\u0642", "\\u0644", "\\u0627", "\\u0645", " ", "(",
         "j", "s", "o", "n", ")">>}>>,
    \* "total": "total" and 1 Persian spellings
    <<<<"t", "o", "t", "a", "l">>,
      {<<"t", "o", "t", "a", "l">>,
       <<"\\u062c", "\\u0645", "\\u0639", " ", "\\u06a9", "\\u0644">>}>>,
    \* "payment_method": "payment method" and 1 Persian spellings
    <<<<"p", "a", "y", "m", "e", "n", "t", "_", "m", "e", "t", "h", "o", "d">>,
      {<<"p", "a", "y", "m", "e", "n", "t", " ", "m", "e", "t", "h", "o",
         "d">>,
       <<"\\u0631", "\\u0648", "\\u0634", " ", "\\u067e", "\\u0631",
         "\\u062f", "\\u0627", "\\u062e", "\\u062a">>}>>,
    \* "receipt_url": "receipt url" and 1 Persian spellings
    <<<<"r", "e", "c", "e", "i", "p", "t", "_", "u", "r", "l">>,
      {<<"r", "e", "c", "e", "i", "p", "t", " ", "u", "r", "l">>,
       <<"\\u0631", "\\u0633", "\\u06cc", "\\u062f", " ", "u", "r", "l">>}>>,
    \* "telegram_id": "telegram id" and 1 Persian spellings
    <<<<"t", "e", "l", "e", "g", "r", "a", "m", "_", "i", "d">>,
      {<<"t", "e", "l", "e", "g", "r", "a", "m", " ", "i", "d">>,
       <<"\\u062a", "\\u0644", "\\u06af", "\\u0631", "\\u0627", "\\u0645",
         " ", "i", "d">>}>>,
    \* "address": "address" and 1 Persian spellings
    <<<<"a", "d", "d", "r", "e", "s", "s">>,
      {<<"a", "d", "d", "r", "e", "s", "s">>,
       <<"\\u0622", "\\u062f", "\\u0631", "\\u0633">>}>>,
    \* "postal_code": "postal code" and 2 Persian spellings
    <<<<"p", "o", "s", "t", "a", "l", "_", "c", "o", "d", "e">>,
      {<<"p", "o", "s", "t", "a", "l", " ", "c", "o", "d", "e">>,
       <<"\\u06a9", "\\u062f", "\\u067e", "\\u0633", "\\u062a", "\\u06cc">>,
       <<"\\u06a9", "\\u062f", " ", "\\u067e", "\\u0633", "\\u062a",
         "\\u06cc">>}>>
>>

\* _ORDER_ALIASES[key]
AliasesOf(key) ==
    _ORDER_ALIASES[CHOOSE k \in DOMAIN _ORDER_ALIASES :
                       _ORDER_ALIASES[k][1] = key][2]

\* a dict is a function; {} is the function of empty domain
EmptyDict == [x \in {} |-> x]

\* d.get(k, default)
DictGet(d, k, default) == IF k \in DOMAIN d THEN d[k] ELSE default

\* lines 182-184: every alias of one key is written into the index, a later
\* write replacing an earlier one of the same canonical form
RECURSIVE BuildIndex(_, _)
BuildIndex(table, index) ==
    IF table = <<>> THEN index
    ELSE LET key == Head(table)[1]
             canons == {_canon(Some(a)) : a \in Head(table)[2]}
         IN  BuildIndex(Tail(table),
                        [c \in DOMAIN index \cup canons |->
                            IF c \in canons THEN key ELSE index[c]])

\* lines 181-184
_CANON_TO_KEY_ORDERS == BuildIndex(_ORDER_ALIASES, EmptyDict)

\* lines 313-316: the first header, from idx on, whose canonical form is one
\* of alias_canon, as a 1-based column
RECURSIVE FindColFrom(_, _, _)
FindColFrom(hdrs, alias_canon, idx) ==
    IF idx > Len(hdrs) THEN None
    ELSE IF _canon(Some(hdrs[idx])) \in alias_canon THEN Some(idx)
    ELSE FindColFrom(hdrs, alias_canon, idx + 1)

\* line 312: alias_canon = {_canon(a) for a in aliases}, for the three alias
\* sets update_order_status passes (lines 374-377)
OrderNoAliasCanon == {_canon(Some(a)) : a \in AliasesOf(order_no_key)}
StatusAliasCanon == {_canon(Some(a)) : a \in AliasesOf(status_key)}
ExtraAliasCanon == {_canon(Some(a)) : a \in AliasesOf(extra_key)}

\* lines 310-316, given the alias_canon of line 312
_find_col_index(hdrs, alias_canon) == FindColFrom(hdrs, alias_canon, 1)

\* ------------------------------------------------------------------------
\* Products aliases and header normalization (gs_client.py 134-160, 187-194)
\* ------------------------------------------------------------------------

\* lines 134-154: _PRODUCT_ALIASES as (key, aliases) pairs in the order of the
\* dict; a character outside ASCII is written as its escape
_PRODUCT_ALIASES == <<
    <<<<"c", "o", "d", "e">>,
      {<<"c", "o", "d", "e">>,
       <<"\\u06a9", "\\u062f">>}>>,
    <<<<"n", "a", "m", "e">>,
      {<<"n", "a", "m", "e">>,
       <<"\\u0646", "\\u0627", "\\u0645">>}>>,
    <<<<"b", "r", "a", "n", "d">>,
      {<<"b", "r", "a", "n", "d">>,
       <<"\\u0628", "\\u0631", "\\u0646", "\\u062f">>}>>,
    <<<<"c", "a", "t", "e", "g", "o", "r", "y">>,
      {<<"c", "a", "t", "e", "g", "o", "r", "y">>,
       <<"\\u062f", "\\u0633", "\\u062a", "\\u0647">>}>>,
    <<<<"s", "h", "o", "r", "t", "_", "d", "e", "s", "c">>,
      {<<"s", "h", "o", "r", "t", " ", "d", "e", "s", "c">>,
       <<"\\u062a", "\\u0648", "\\u0636", "\\u06cc", "\\u062d", " ",
        "\\u06a9", "\\u0648", "\\u062a", "\\u0627", "\\u0647">>,
       <<"\\u062a", "\\u0648", "\\u0636", "\\u06cc", "\\u062d", " ",
        "\\u0643", "\\u0648", "\\u062a", "\\u0627", "\\u0647">>}>>,
    <<<<"l", "o", "n", "g", "_", "d", "e", "s", "c">>,
      {<<"l", "o", "n", "g", " ", "d", "e", "s", "c">>,
       <<"\\u062a", "\\u0648", "\\u0636", "\\u06cc", "\\u062d", " ",
        "\\u0628", "\\u0644", "\\u0646", "\\u062f">>,
       <<"\\u062a", "\\u0648", "\\u0636", "\\u06cc", "\\u062d", " ",
        "\\u0643", "\\u0627", "\\u0645", "\\u0644">>,
       <<"\\u062a", "\\u0648", "\\u0636", "\\u06cc", "\\u062d", " ",
        "\\u06a9", "\\u0627", "\\u0645", "\\u0644">>}>>,
    <<<<"p", "r", "i", "c", "e", "_", "r", "e", "t", "a", "i", "l">>,
      {<<"p", "r", "i", "c", "e", " ", "r", "e", "t", "a", "i", "l">>,
       <<"\\u0642", "\\u06cc", "\\u0645", "\\u062a", " ", "\\u062e",
        "\\u0631", "\\u062f", "\\u0647">>,
       <<"\\u0642", "\\u06cc", "\\u0645", "\\u062a", " ", "\\u062e",
        "\\u0631", "\\u062f", "\\u0647", " ", "\\u0641", "\\u0631",
        "\\u0648", "\\u0634", "\\u06cc">>,
       <<"\\u0642", "\\u06cc", "\\u0645", "\\u062a", " ", "\\u062e",
        "\\u0631", "\\u062f", "\\u0647", "\\u200c", "\\u0641", "\\u0631",
        "\\u0648", "\\u0634", "\\u06cc">>}>>,
    <<<<"p", "r", "i", "c", "e", "_", "w", "h", "o", "l", "e", "s", "a", "l", "e", "_", "b", "a", "s", "e">>,
      {<<"p", "r", "i", "c", "e", " ", "w", "h", "o", "l", "e", "s", "a",
        "l", "e", " ", "b", "a", "s", "e">>,
       <<"\\u0642", "\\u06cc", "\\u0645", "\\u062a", " ", "\\u0639",
        "\\u0645", "\\u062f", "\\u0647", " ", "\\u067e", "\\u0627",
        "\\u06cc", "\\u0647">>}>>,
    <<<<"m", "i", "n", "_", "w", "h", "o", "l", "e", "s", "a", "l", "e", "_", "q", "t", "y">>,
      {<<"m", "i", "n", " ", "w", "h", "o", "l", "e", "s", "a", "l", "e",
        " ", "q", "t", "y">>,
       <<"\\u062d", "\\u062f", "\\u0627", "\\u0642", "\\u0644", " ",
        "\\u0645", "\\u0642", "\\u062f", "\\u0627", "\\u0631", " ",
        "\\u0639", "\\u0645", "\\u062f", "\\u0647">>,
       <<"\\u062d", "\\u062f", "\\u0627", "\\u0642", "\\u0644", " ",
        "\\u0639", "\\u0645", "\\u062f", "\\u0647">>}>>,
    <<<<"p", "a", "c", "k", "_", "q", "t", "y">>,
      {<<"p", "a", "c", "k", " ", "q", "t", "y">>,
       <<"\\u062a", "\\u0639", "\\u062f", "\\u0627", "\\u062f", " ",
        "\\u062f", "\\u0631", " ", "\\u0628", "\\u0633", "\\u062a",
        "\\u0647">>}>>,
    <<<<"s", "t", "o", "c", "k">>,
      {<<"s", "t", "o", "c", "k">>,
       <<"\\u0645", "\\u0648", "\\u062c", "\\u0648", "\\u062f",
        "\\u06cc">>}>>,
    <<<<"i", "m", "a", "g", "e", "_", "u", "r", "l">>,
      {<<"i", "m", "a", "g", "e", " ", "u", "r", "l">>,
       <<"\\u062a", "\\u0635", "\\u0648", "\\u06cc", "\\u0631">>,
       <<"\\u0639", "\\u06a9", "\\u0633">>,
       <<"\\u062a", "\\u0635", "\\u0648", "\\u06cc", "\\u0631", " ", "u",
        "r", "l">>}>>,
    <<<<"t", "a", "g", "s">>,
      {<<"t", "a", "g", "s">>,
       <<"\\u0628", "\\u0631", "\\u0686", "\\u0633", "\\u0628", "\\u0647",
        "\\u0627">>,
       <<"\\u0628", "\\u0631", "\\u0686", "\\u0633", "\\u0628", "\\u200c",
        "\\u0647", "\\u0627">>,
       <<"\\u0628", "\\u0631", "\\u0686", "\\u0633", "\\u0628", " ",
        "\\u0647", "\\u0627">>}>>,
    <<<<"s", "t", "a", "t", "u", "s">>,
      {<<"s", "t", "a", "t", "u", "s">>,
       <<"\\u0648", "\\u0636", "\\u0639", "\\u06cc", "\\u062a">>}>>
>>

\* lines 157-160
_CANON_TO_KEY_PRODUCTS == BuildIndex(_PRODUCT_ALIASES, EmptyDict)

\* a normalization that keeps only the headers the index knows
NormalizeDropUnknown(index, hdrs) ==
    [k \in DOMAIN hdrs |-> DictGet(index, _canon(Some(hdrs[k])), <<>>)]

\* lines 189-194 against a given index: mapped = index.get(c, c)
NormalizeWith(index, hdrs) ==
    [k \in DOMAIN hdrs |->
        LET c == _canon(Some(hdrs[k])) IN DictGet(index, c, c)]

\* lines 187-194
_normalize_headers(hdrs) == NormalizeWith(_CANON_TO_KEY_PRODUCTS, hdrs)

\* ------------------------------------------------------------------------
\* Records of the products worksheet (gs_client.py 197-204, 243-248)
\* ------------------------------------------------------------------------

\* Python values that are no text: None, True, False and the empty list
\* json.loads returns for "[]"; a text is a sequence of characters, these
\* are sequences of one token that is no character
PyNone == <<"None">>
PyTrue == <<"True">>
PyFalse == <<"False">>
PyEmptyList == <<"[]">>

\* a conversion that stores the cell as it is, an empty text included
CellAsIs(val) == val

\* line 203: val if val != "" else None
NoneIfEmpty(val) == IF val # <<>> THEN val ELSE PyNone

\* lines 197-204: the loop writes out[h] for each non-blank h in turn, so
\* the last column of a name gives its value
_row_to_dict(hdrs, r) ==
    [h \in {hdrs[k] : k \in DOMAIN hdrs} \ {<<>>} |->
        LET last == CHOOSE k \in DOMAIN hdrs :
                        /\ hdrs[k] = h
                        /\ \A j \in DOMAIN hdrs : hdrs[j] = h => j <= k
            val == IF last <= Len(r) THEN r[last] ELSE <<>>
        IN  NoneIfEmpty(val)]

\* lines 243-248: data, for a grid that has a header row
ProductsData(grid) ==
    LET headers_norm == _normalize_headers(grid[1])
    IN  [j \in 1..(Len(grid) - 1) |-> _row_to_dict(headers_norm, grid[j + 1])]

\* ------------------------------------------------------------------------
\* Key/value worksheets (gs_client.py 258-278)
\* ------------------------------------------------------------------------

TrueText == <<"t", "r", "u", "e">>
FalseText == <<"f", "a", "l", "s", "e">>
EmptyListText == <<"[", "]">>

\* line 270
StartsWithBracket(val) == val # <<>> /\ val[1] \in {"{", "["}

\* json.loads on the bracketed texts the model holds: "[]" parses to the
\* empty list, "{" raises JSONDecodeError (None)
JsonLoads(val) == IF val = EmptyListText THEN Some(PyEmptyList) ELSE None

\* lines 270-277: the value stored for a stripped cell text
KvValue(val) ==
    IF StartsWithBracket(val) /\ JsonLoads(val) # None
    THEN JsonLoads(val)[1]
    ELSE LET low == Lower(val)
         IN  IF low = TrueText THEN PyTrue
             ELSE IF low = FalseText THEN PyFalse
             ELSE val

\* lines 263-277: conf after the rows of values from index idx on
RECURSIVE KvConfFrom(_, _, _)
KvConfFrom(values, idx, conf) ==
    IF idx > Len(values) THEN conf
    ELSE LET r == values[idx]
         IN  IF Len(r) < 2 \/ Strip(r[1]) = <<>>
             THEN KvConfFrom(values, idx + 1, conf)
             ELSE KvConfFrom(values, idx + 1,
                     [k \in DOMAIN conf \cup {Strip(r[1])} |->
                         IF k = Strip(r[1]) THEN KvValue(Strip(r[2]))
                         ELSE conf[k]])

\* lines 262-278: conf of the fetched values, the first row being skipped
KvConf(values) == KvConfFrom(values, 2, EmptyDict)

\* ------------------------------------------------------------------------
\* The remote worksheet: a grid is a sequence of rows, a row a sequence of
\* cells; row 1 is the header row; a cell beyond the end of its row is empty
\* ------------------------------------------------------------------------

Cell(grid, r, c) ==
    IF r \in DOMAIN grid /\ c \in DOMAIN grid[r] THEN grid[r][c] ELSE <<>>

\* ws.update_cell(r, c, value) on the remote grid
UpdateCell(grid, r, c, value) ==
    [grid EXCEPT ![r] = [k \in 1..(IF c > Len(@) THEN c ELSE Len(@)) |->
                            IF k = c THEN value
                            ELSE IF k <= Len(@) THEN @[k] ELSE <<>>]]

\* ws.row_values(1)
RowValues1(grid) == IF grid = <<>> THEN <<>> ELSE grid[1]

\* ------------------------------------------------------------------------
\* update_order_status: the row search (gs_client.py 388-393)
\* ------------------------------------------------------------------------

\* line 391: len(r) >= col_order and (r[col_order - 1] or "").strip() == needle
RowMatches(r, col, needle) ==
    Len(r) >= col /\ Strip(r[col]) = needle

\* a row search that keeps looking after a match, and so returns the last
FindLastRow(grid, col, needle, idx) ==
    LET m == {r \in idx..Len(grid) : RowMatches(grid[r], col, needle)}
    IN  IF m = {} THEN None ELSE Some(CHOOSE r \in m : \A q \in m : q <= r)

\* lines 390-393: the first row from sheet row idx on that matches
RECURSIVE FindTargetRow(_, _, _, _)
FindTargetRow(grid, col, needle, idx) ==
    IF idx > Len(grid) THEN None
    ELSE IF RowMatches(grid[idx], col, needle) THEN Some(idx)
    ELSE FindTargetRow(grid, col, needle, idx + 1)

\* ------------------------------------------------------------------------
\* append_order: the row built from a dict (gs_client.py 328-340)
\* ------------------------------------------------------------------------

\* a lookup that forgets the alias index and reads the dict by header text
OrderedValueNoAlias(d, hdr) ==
    DictGet(d, hdr, DictGet(d, _canon(Some(hdr)), <<>>))

\* lines 331-339: the value placed under header hdr for the dict d
OrderedValue(d, hdr) ==
    LET c == _canon(Some(hdr))
        key == DictGet(_CANON_TO_KEY_ORDERS, c, <<>>)
    IN  IF key # <<>> /\ key \in DOMAIN d
        THEN DictGet(d, key, <<>>)
        ELSE DictGet(d, hdr, DictGet(d, c, <<>>))

\* lines 328-343: ordered, for a dict or a list
BuildOrdered(input, hdrs) ==
    IF input.kind = "dict"
    THEN [k \in DOMAIN hdrs |-> OrderedValue(input.items, hdrs[k])]
    ELSE input.items

\* ------------------------------------------------------------------------
\* append_order: the row number parsed from the reported range
\* (gs_client.py 349-357)
\* ------------------------------------------------------------------------

DigitChars == <<"0", "1", "2", "3", "4", "5", "6", "7", "8", "9">>

IsDigit(c) == \E k \in DOMAIN DigitChars : DigitChars[k] = c

DigitValue(c) == (CHOOSE k \in DOMAIN DigitChars : DigitChars[k] = c) - 1

\* str(n) for n >= 0
RECURSIVE IntToStr(_)
IntToStr(n) ==
    IF n < 10 THEN <<DigitChars[n + 1]>>
    ELSE IntToStr(n \div 10) \o <<DigitChars[(n % 10) + 1]>>

\* int(str) of a text of decimal digits; None stands for ValueError
RECURSIVE DigitsValue(_)
DigitsValue(str) ==
    IF Len(str) = 1 THEN DigitValue(str[1])
    ELSE 10 * DigitsValue(SubSeq(str, 1, Len(str) - 1)) + DigitValue(str[Len(str)])

ParseInt(str) ==
    IF str # <<>> /\ \A k \in DOMAIN str : IsDigit(str[k])
    THEN Some(DigitsValue(str))
    ELSE None

\* str.split(ch): the pieces between the occurrences of ch
RECURSIVE SplitOn(_, _)
SplitOn(str, ch) ==
    IF Contains(str, ch)
    THEN LET head == BeforeFirst(str, ch)
         IN  <<head>> \o SplitOn(SubSeq(str, Len(head) + 2, Len(str)), ch)
    ELSE <<str>>

\* re.sub(r"[A-Z]+", "", a1)
DropUpper(str) == SelectSeq(str, LAMBDA c : ~IsUpper(c))

\* lines 349-357: row_idx; an exception in the try block leaves it 0
ParseRowIdx(updated_range) ==
    LET parts == SplitOn(updated_range, "!")
    IN  IF Len(parts) < 2 THEN 0                        \* IndexError, line 352
        ELSE LET cells == SplitOn(parts[2], ":")
             IN  IF Len(cells) # 2 THEN 0                \* ValueError, line 353
                 ELSE LET n == ParseInt(DropUpper(cells[1]))
                      IN  IF n = None THEN 0 ELSE n[1]   \* ValueError, line 354

\* ------------------------------------------------------------------------
\* State
\* ------------------------------------------------------------------------

VARIABLES
    \* canonicalization of one input, applied twice
    canon_in,       \* the argument of _canon: None or Some(string)
    canon_once,     \* Some(_canon(canon_in)) once computed
    canon_twice,    \* Some(_canon(canon_once)) once computed
    \* two spellings of one header
    header,         \* a header string
    spelling,       \* a spelling of header a human reads as the same header
    edits,          \* how many edits turned header into spelling
    compared,       \* Some(<<_canon(header), _canon(spelling)>>) once compared
    \* the call in progress
    pc,             \* where the call stands
    ret,            \* Some(value returned)
    err,            \* Some(exception raised out of the call)
    log,            \* the events handed to _log, in order
    \* the _retrying loop in progress
    max_tries,      \* its attempt budget
    try_i,          \* its loop index i
    slept,          \* the durations handed to time.sleep, in order
    \* an operation that fails a fixed number of times, then succeeds
    fail_first,     \* how many leading invocations fail
    calls,          \* how many times the operation was invoked
    \* the TTL cache
    _CACHE,         \* key -> None or Some(<<ts, data>>)
    now,            \* time.monotonic()
    got,            \* the last _get_cache: Some([key, ttl, at, value])
    latest,         \* key -> Some(<<time, payload>>) of the latest set
    \* the remote orders worksheet
    sheet,          \* its grid
    sheet0,         \* its grid when the call began
    writes,         \* the update_cell invocations, in order
    \* update_order_status: arguments and locals
    order_no,
    status,
    extra,          \* None or Some(text)
    rows,           \* Some(grid fetched by get_all_values)
    col_order,      \* None or Some(1-based column)
    col_status,
    col_extra,
    target_row,     \* None or Some(1-based sheet row)
    \* append_order: argument and locals
    row,            \* [kind |-> "dict" or "list", items |-> the dict or list]
    headers_raw,    \* Some(header row fetched by row_values(1))
    ordered,        \* Some(list handed to append_row)
    updated_range,  \* Some(updatedRange of the response, "" when it has none)
    \* alias resolution of a header row against an alias table
    aliases,        \* the alias table, as (key, aliases) pairs in dict order
    canon_to_key,   \* Some(index built from aliases)
    hdr_list,       \* the header row handed to the resolver
    norm,           \* Some(list of resolved names)
    \* a cached read of a named worksheet
    wsname,         \* the worksheet read, also its cache key
    heap,           \* object -> None or Some(its value); a cached payload is an object
    \* two update_order_status calls running at once: the call not scheduled
    running,        \* which of the two calls the call variables belong to
    parked          \* the context of the other call

canonVars == <<canon_in, canon_once, canon_twice>>
equivVars == <<header, spelling, edits, compared>>
callVars == <<pc, ret, err, log>>
loopVars == <<max_tries, try_i, slept>>
opVars == <<fail_first, calls>>
cacheVars == <<_CACHE, now, got, latest>>
sheetVars == <<sheet, sheet0, writes>>
argVars == <<order_no, status, extra>>
localVars == <<rows, col_order, col_status, col_extra, target_row>>
updVars == <<sheetVars, argVars, localVars>>
appVars == <<row, headers_raw, ordered, updated_range>>
resolveVars == <<aliases, canon_to_key, hdr_list, norm>>
readVars == <<wsname, heap>>
concVars == <<running, parked>>
vars == <<canon_in, canon_once, canon_twice, header, spelling, edits, compared,
          pc, ret, err, log, max_tries, try_i, slept, fail_first, calls,
          _CACHE, now, got, latest, sheet, sheet0, writes,
          order_no, status, extra,
          rows, col_order, col_status, col_extra, target_row,
          row, headers_raw, ordered, updated_range,
          aliases, canon_to_key, hdr_list, norm,
          wsname, heap,
          running, parked>>

NoRow == [kind |-> "list", items |-> <<>>]

NoEntries == [k \in CacheKeys |-> None]

\* the list and dict objects a read creates: the one stored in the cache and
\* the one line 241 returns beside it
ObjIds == {"o1", "o2"}

\* the context of a call that has not begun
NoContext ==
    [pc |-> "none", ret |-> None, err |-> None, try_i |-> 0,
     order_no |-> <<>>, status |-> <<>>, extra |-> None, rows |-> None,
     col_order |-> None, col_status |-> None, col_extra |-> None,
     target_row |-> None]

\* ------------------------------------------------------------------------
\* Canonicalization of bounded inputs
\* ------------------------------------------------------------------------

\* letters of both cases, space, underscore, the zero-width characters,
\* the no-break space and the parentheses
Alphabet == {"a", "A", " ", "_", ZWNJ, ZWJ, LRM, RLM, NBSP, "(", ")"}

StringsUpTo(n) == UNION {[1..k -> Alphabet] : k \in 0..n}

IsString(x) == x \in Seq(Alphabet)

CanonInit ==
    /\ canon_in \in {None} \cup {Some(x) : x \in StringsUpTo(MaxLen)}
    /\ canon_once = None
    /\ canon_twice = None
    /\ header = <<>> /\ spelling = <<>> /\ edits = 0 /\ compared = None
    /\ pc = "idle" /\ ret = None /\ err = None /\ log = <<>>
    /\ max_tries = DefaultTries /\ try_i = 0 /\ slept = <<>>
    /\ fail_first = 0 /\ calls = 0
    /\ _CACHE = NoEntries /\ now = 0 /\ got = None /\ latest = NoEntries
    /\ sheet = <<>> /\ sheet0 = <<>> /\ writes = <<>>
    /\ order_no = <<>> /\ status = <<>> /\ extra = None
    /\ rows = None /\ col_order = None /\ col_status = None
    /\ col_extra = None /\ target_row = None
    /\ row = NoRow /\ headers_raw = None /\ ordered = None
    /\ updated_range = None
    /\ aliases = <<>> /\ canon_to_key = None /\ hdr_list = <<>> /\ norm = None
    /\ wsname = "products" /\ heap = [o \in ObjIds |-> None]
    /\ running = 1 /\ parked = NoContext

\* canon_once = _canon(canon_in)
ApplyCanon ==
    /\ canon_once = None
    /\ canon_once' = Some(_canon(canon_in))
    /\ UNCHANGED <<canon_in, canon_twice>>
    /\ UNCHANGED <<equivVars, callVars, loopVars, opVars, cacheVars, updVars, appVars, resolveVars, readVars, concVars>>

\* canon_twice = _canon(canon_once)
ApplyCanonAgain ==
    /\ canon_once # None
    /\ canon_twice = None
    /\ canon_twice' = Some(_canon(Some(canon_once[1])))
    /\ UNCHANGED <<canon_in, canon_once>>
    /\ UNCHANGED <<equivVars, callVars, loopVars, opVars, cacheVars, updVars, appVars, resolveVars, readVars, concVars>>

CanonNext == ApplyCanon \/ ApplyCanonAgain

SpecCanon == CanonInit /\ [][CanonNext]_vars

\* ------------------------------------------------------------------------
\* Spellings of one header
\* ------------------------------------------------------------------------

Invisible == {ZWNJ, ZWJ, LRM, RLM, NBSP}

\* trailing parenthetical annotations
Parentheticals == {<<"(", "a", ")">>, <<" ", "(", "A", " ", ")">>}

InsertAt(str, k, ch) == SubSeq(str, 1, k) \o <<ch>> \o SubSeq(str, k + 1, Len(str))
DeleteAt(str, k) == SubSeq(str, 1, k - 1) \o SubSeq(str, k + 1, Len(str))

\* the other case of a letter
SwapCase(c) == IF IsUpper(c) THEN LowerChar(c) ELSE UpperChar(c)

EquivInit ==
    /\ header \in StringsUpTo(MaxHdrLen)
    /\ spelling = header
    /\ edits = 0
    /\ compared = None
    /\ canon_in = None /\ canon_once = None /\ canon_twice = None
    /\ pc = "idle" /\ ret = None /\ err = None /\ log = <<>>
    /\ max_tries = DefaultTries /\ try_i = 0 /\ slept = <<>>
    /\ fail_first = 0 /\ calls = 0
    /\ _CACHE = NoEntries /\ now = 0 /\ got = None /\ latest = NoEntries
    /\ sheet = <<>> /\ sheet0 = <<>> /\ writes = <<>>
    /\ order_no = <<>> /\ status = <<>> /\ extra = None
    /\ rows = None /\ col_order = None /\ col_status = None
    /\ col_extra = None /\ target_row = None
    /\ row = NoRow /\ headers_raw = None /\ ordered = None
    /\ updated_range = None
    /\ aliases = <<>> /\ canon_to_key = None /\ hdr_list = <<>> /\ norm = None
    /\ wsname = "products" /\ heap = [o \in ObjIds |-> None]
    /\ running = 1 /\ parked = NoContext

CanEdit == compared = None /\ edits < MaxEdits

Edited(new) ==
    /\ spelling' = new
    /\ edits' = edits + 1
    /\ UNCHANGED <<header, compared>>
    /\ UNCHANGED <<canonVars, callVars, loopVars, opVars, cacheVars, updVars, appVars, resolveVars, readVars, concVars>>

ChangeCase ==
    /\ CanEdit
    /\ \E k \in DOMAIN spelling :
          /\ IsUpper(spelling[k]) \/ IsLower(spelling[k])
          /\ Edited([spelling EXCEPT ![k] = SwapCase(spelling[k])])

UnderscoreToSpace ==
    /\ CanEdit
    /\ \E k \in DOMAIN spelling :
          spelling[k] = "_" /\ Edited([spelling EXCEPT ![k] = " "])

SpaceToUnderscore ==
    /\ CanEdit
    /\ \E k \in DOMAIN spelling :
          spelling[k] = " " /\ Edited([spelling EXCEPT ![k] = "_"])

InsertInvisible ==
    /\ CanEdit
    /\ \E k \in 0..Len(spelling), ch \in Invisible :
          Edited(InsertAt(spelling, k, ch))

DeleteInvisible ==
    /\ CanEdit
    /\ \E k \in DOMAIN spelling :
          spelling[k] \in Invisible /\ Edited(DeleteAt(spelling, k))

AppendParenthetical ==
    /\ CanEdit
    /\ \E p \in Parentheticals : Edited(spelling \o p)

Compare ==
    /\ compared = None
    /\ compared' = Some(<<_canon(Some(header)), _canon(Some(spelling))>>)
    /\ UNCHANGED <<header, spelling, edits>>
    /\ UNCHANGED <<canonVars, callVars, loopVars, opVars, cacheVars, updVars, appVars, resolveVars, readVars, concVars>>

EquivNext ==
    \/ ChangeCase
    \/ UnderscoreToSpace
    \/ SpaceToUnderscore
    \/ InsertInvisible
    \/ DeleteInvisible
    \/ AppendParenthetical
    \/ Compare

SpecEquiv == EquivInit /\ [][EquivNext]_vars

\* ------------------------------------------------------------------------
\* The retry executor on an operation that fails k times, then succeeds
\* ------------------------------------------------------------------------

SuccessValue == "ok"

RetryInit ==
    /\ max_tries \in 1..MaxAttempts
    /\ fail_first \in 0..MaxFailures
    /\ calls = 0
    /\ try_i = 0
    /\ slept = <<>>
    /\ pc = "retrying" /\ ret = None /\ err = None /\ log = <<>>
    /\ canon_in = None /\ canon_once = None /\ canon_twice = None
    /\ header = <<>> /\ spelling = <<>> /\ edits = 0 /\ compared = None
    /\ _CACHE = NoEntries /\ now = 0 /\ got = None /\ latest = NoEntries
    /\ sheet = <<>> /\ sheet0 = <<>> /\ writes = <<>>
    /\ order_no = <<>> /\ status = <<>> /\ extra = None
    /\ rows = None /\ col_order = None /\ col_status = None
    /\ col_extra = None /\ target_row = None
    /\ row = NoRow /\ headers_raw = None /\ ordered = None
    /\ updated_range = None
    /\ aliases = <<>> /\ canon_to_key = None /\ hdr_list = <<>> /\ norm = None
    /\ wsname = "products" /\ heap = [o \in ObjIds |-> None]
    /\ running = 1 /\ parked = NoContext

\* line 87: fn returns, and _retrying returns its value
RetryOpReturns ==
    /\ pc = "retrying"
    /\ calls >= fail_first
    /\ calls' = calls + 1
    /\ ret' = Some(SuccessValue)
    /\ pc' = "returned"
    /\ UNCHANGED <<err, log, fail_first>>
    /\ UNCHANGED <<canonVars, equivVars, loopVars, cacheVars, updVars, appVars, resolveVars, readVars, concVars>>

\* lines 88-90: fn raises on the last attempt, and the exception propagates
RetryOpRaisesLast ==
    /\ pc = "retrying"
    /\ calls < fail_first
    /\ IsLastTry(try_i, max_tries)
    /\ calls' = calls + 1
    /\ err' = Some(OpError(<<"fn">>, calls + 1))
    /\ pc' = "raised"
    /\ UNCHANGED <<ret, log, fail_first>>
    /\ UNCHANGED <<canonVars, equivVars, loopVars, cacheVars, updVars, appVars, resolveVars, readVars, concVars>>

\* lines 88-93: fn raises on an earlier attempt: log, sleep, next iteration
\* (a loop that runs out returns None)
RetryOpRaisesEarlier ==
    /\ pc = "retrying"
    /\ calls < fail_first
    /\ ~IsLastTry(try_i, max_tries)
    /\ calls' = calls + 1
    /\ log' = Append(log, RetryEvent(try_i, OpError(<<"fn">>, calls + 1)))
    /\ slept' = Append(slept, SleepFor(try_i))
    /\ try_i' = try_i + 1
    /\ pc' = IF try_i + 1 < max_tries THEN "retrying" ELSE "returned"
    /\ UNCHANGED <<ret, err, fail_first, max_tries>>
    /\ UNCHANGED <<canonVars, equivVars, cacheVars, updVars, appVars, resolveVars, readVars, concVars>>

RetryNext == RetryOpReturns \/ RetryOpRaisesLast \/ RetryOpRaisesEarlier

SpecRetry == RetryInit /\ [][RetryNext]_vars

\* ------------------------------------------------------------------------
\* The TTL cache under set, get and the passing of time
\* ------------------------------------------------------------------------

Payloads == {"v1", "v2"}

CacheInit ==
    /\ _CACHE = NoEntries
    /\ now = 0
    /\ got = None
    /\ latest = NoEntries
    /\ canon_in = None /\ canon_once = None /\ canon_twice = None
    /\ header = <<>> /\ spelling = <<>> /\ edits = 0 /\ compared = None
    /\ pc = "idle" /\ ret = None /\ err = None /\ log = <<>>
    /\ max_tries = DefaultTries /\ try_i = 0 /\ slept = <<>>
    /\ fail_first = 0 /\ calls = 0
    /\ sheet = <<>> /\ sheet0 = <<>> /\ writes = <<>>
    /\ order_no = <<>> /\ status = <<>> /\ extra = None
    /\ rows = None /\ col_order = None /\ col_status = None
    /\ col_extra = None /\ target_row = None
    /\ row = NoRow /\ headers_raw = None /\ ordered = None
    /\ updated_range = None
    /\ aliases = <<>> /\ canon_to_key = None /\ hdr_list = <<>> /\ norm = None
    /\ wsname = "products" /\ heap = [o \in ObjIds |-> None]
    /\ running = 1 /\ parked = NoContext

\* set(key, value)
CacheSet ==
    \E key \in CacheKeys, value \in Payloads :
        /\ _CACHE' = _set_cache(_CACHE, key, value, now)
        /\ latest' = [latest EXCEPT ![key] = Some(<<now, value>>)]
        /\ got' = None
        /\ UNCHANGED now
        /\ UNCHANGED <<canonVars, equivVars, callVars, loopVars, opVars, updVars, appVars, resolveVars, readVars, concVars>>

\* get(key, ttl)
CacheGet ==
    \E key \in CacheKeys, ttl \in 0..MaxTTL :
        /\ got' = Some([key |-> key, ttl |-> ttl, at |-> now,
                        value |-> _get_cache(_CACHE, key, ttl, now)])
        /\ UNCHANGED <<_CACHE, now, latest>>
        /\ UNCHANGED <<canonVars, equivVars, callVars, loopVars, opVars, updVars, appVars, resolveVars, readVars, concVars>>

\* the monotonic clock advances
CacheTick ==
    /\ now < MaxTime
    /\ now' = now + 1
    /\ got' = None
    /\ UNCHANGED <<_CACHE, latest>>
    /\ UNCHANGED <<canonVars, equivVars, callVars, loopVars, opVars, updVars, appVars, resolveVars, readVars, concVars>>

CacheNext == CacheSet \/ CacheGet \/ CacheTick

SpecCache == CacheInit /\ [][CacheNext]_vars

\* ------------------------------------------------------------------------
\* update_order_status (gs_client.py 360-403)
\* ------------------------------------------------------------------------

\* header texts
OrderNoHdr == <<"O", "r", "d", "e", "r", " ", "N", "o">>
OrderNoSnakeHdr == <<"o", "r", "d", "e", "r", "_", "n", "o">>
StatusHdr == <<"S", "t", "a", "t", "u", "s">>
StatusFaHdr == <<"\\u0648", "\\u0636", "\\u0639", "\\u06cc", "\\u062a">>
NotesHdr == <<"N", "o", "t", "e", "s", " ", "(", "x", ")">>
FooHdr == <<"F", "o", "o">>

\* cell texts
T1 == <<"T", "1">>
T1Padded == <<" ", "T", "1", " ">>
T9 == <<"T", "9">>
PENDING == <<"P", "E", "N", "D", "I", "N", "G">>
PAID == <<"P", "A", "I", "D">>
OldNote == <<"o", "l", "d">>
NewNote == <<"n", "e", "w">>

\* header rows: the two columns in order, reordered with a notes column,
\* without a key column, without a status column, and empty
UpdateHeaders ==
    {<<OrderNoHdr, StatusHdr>>,
     <<StatusFaHdr, OrderNoSnakeHdr, NotesHdr>>,
     <<FooHdr, StatusHdr>>,
     <<OrderNoHdr>>,
     <<>>}

\* data rows: full, padded key, reordered, shorter than the header, empty
DataRows ==
    {<<T1, PENDING>>,
     <<T1Padded, PENDING, OldNote>>,
     <<PENDING, T1, OldNote>>,
     <<T1>>,
     <<>>}

\* the grids a call may find: no row at all, or a header row and data rows
Grids(headers) ==
    {<<>>} \cup
    {<<hd>> \o d : hd \in headers,
                   d \in UNION {[1..n -> DataRows] : n \in 0..MaxRows}}

\* line 384, line 395 and line 402: the names of the outcome events
NoHeadersEvent == "update_order_status_noheaders"
\* a not-found event logged under the name copied from line 384
NotFoundEventCopied == "update_order_status_noheaders"
NotFoundEvent == "update_order_status_notfound"
UpdatedEvent == "update_order_status"

UpdateInit ==
    /\ sheet \in Grids(UpdateHeaders)
    /\ sheet0 = sheet
    /\ writes = <<>>
    /\ order_no \in {T1, T1Padded, T9}
    /\ status = PAID
    /\ extra \in {None, Some(NewNote)}
    /\ rows = None /\ col_order = None /\ col_status = None
    /\ col_extra = None /\ target_row = None
    /\ pc = "open" /\ ret = None /\ err = None /\ log = <<>>
    /\ max_tries = DefaultTries /\ try_i = 0 /\ slept = <<>>
    /\ fail_first = 0 /\ calls = 0
    /\ canon_in = None /\ canon_once = None /\ canon_twice = None
    /\ header = <<>> /\ spelling = <<>> /\ edits = 0 /\ compared = None
    /\ _CACHE = NoEntries /\ now = 0 /\ got = None /\ latest = NoEntries
    /\ row = NoRow /\ headers_raw = None /\ ordered = None
    /\ updated_range = None
    /\ aliases = <<>> /\ canon_to_key = None /\ hdr_list = <<>> /\ norm = None
    /\ wsname = "products" /\ heap = [o \in ObjIds |-> None]
    /\ running = 1 /\ parked = NoContext

\* a loop index that carries on from the previous _retrying call
NextLoopShared(idx) == idx

\* line 85: each _retrying call starts its own "for i in range(max_tries)"
NextLoop(idx) == 0

\* a retry loop that, out of attempts, serves the expired cache entry of the
\* worksheet when there is one instead of raising
RemoteFailsServesStale(op) ==
    /\ try_i < max_tries
    /\ IF IsLastTry(try_i, max_tries)
       THEN /\ IF _CACHE[wsname] # None
               THEN ret' = Some(_CACHE[wsname][1][2]) /\ UNCHANGED err
               ELSE err' = Some(OpError(op, try_i + 1)) /\ UNCHANGED ret
            /\ pc' = "done"
            /\ UNCHANGED <<log, slept, try_i>>
       ELSE /\ log' = Append(log, RetryEvent(try_i, OpError(op, try_i + 1)))
            /\ slept' = Append(slept, SleepFor(try_i))
            /\ try_i' = try_i + 1
            /\ UNCHANGED <<ret, err, pc>>
    /\ UNCHANGED max_tries

\* lines 88-93 for a remote operation that raises
RemoteFails(op) ==
    /\ try_i < max_tries
    /\ IF IsLastTry(try_i, max_tries)
       THEN /\ err' = Some(OpError(op, try_i + 1))
            /\ pc' = "done"
            /\ UNCHANGED <<log, slept, try_i>>
       ELSE /\ log' = Append(log, RetryEvent(try_i, OpError(op, try_i + 1)))
            /\ slept' = Append(slept, SleepFor(try_i))
            /\ try_i' = try_i + 1
            /\ UNCHANGED <<err, pc>>
    /\ UNCHANGED <<ret, max_tries>>

\* lines 76-79: _open_ws("orders")
OpenWsEvents(name) ==
    <<[event |-> "gs_auth"], [event |-> "gs_open_by_key"],
      [event |-> "gs_open_ws", name |-> name]>>

\* line 367
UpdOpenWs ==
    /\ pc = "open"
    /\ log' = log \o OpenWsEvents("orders")
    /\ pc' = "fetch"
    /\ try_i' = NextLoop(try_i)
    /\ UNCHANGED <<ret, err, max_tries, slept>>
    /\ UNCHANGED <<canonVars, equivVars, opVars, cacheVars, updVars, appVars, resolveVars, readVars, concVars>>

\* lines 52, 68: the credentials file or the sheet id is missing
UpdOpenWsFails ==
    /\ pc = "open"
    /\ err' = Some(OpError("open_sheet", 1))
    /\ pc' = "done"
    /\ UNCHANGED <<ret, log>>
    /\ UNCHANGED <<canonVars, equivVars, loopVars, opVars, cacheVars, updVars, appVars, resolveVars, readVars, concVars>>

\* a status column looked up in the header row of the first call
ColStatusFirstSeen(grid) == _find_col_index(sheet0[1], StatusAliasCanon)

\* the locals of lines 372-393 for a fetched grid that has a header row
ColOrderOf(grid) == _find_col_index(grid[1], OrderNoAliasCanon)
ColStatusOf(grid) == _find_col_index(grid[1], StatusAliasCanon)
ColExtraOf(grid) ==
    IF extra # None THEN _find_col_index(grid[1], ExtraAliasCanon) ELSE None
TargetRowOf(grid) == FindTargetRow(grid, ColOrderOf(grid)[1], Strip(order_no), 2)

\* lines 368-370: the grid is fetched and has no row
UpdFetchEmpty ==
    /\ pc = "fetch"
    /\ try_i < max_tries
    /\ sheet = <<>>
    /\ rows' = Some(sheet)
    /\ ret' = Some(FALSE)
    /\ pc' = "done"
    /\ UNCHANGED <<err, log, col_order, col_status, col_extra, target_row>>
    /\ UNCHANGED <<canonVars, equivVars, loopVars, opVars, cacheVars>>
    /\ UNCHANGED <<sheetVars, argVars, appVars, resolveVars, readVars, concVars>>

\* lines 368-386: the grid is fetched and a required column is missing
UpdFetchNoHeaders ==
    /\ pc = "fetch"
    /\ try_i < max_tries
    /\ sheet # <<>>
    /\ ColOrderOf(sheet) = None \/ ColStatusOf(sheet) = None
    /\ rows' = Some(sheet)
    /\ col_order' = ColOrderOf(sheet)
    /\ col_status' = ColStatusOf(sheet)
    /\ col_extra' = ColExtraOf(sheet)
    /\ log' = Append(log, [event |-> NoHeadersEvent,
                           order_col |-> ColOrderOf(sheet),
                           status_col |-> ColStatusOf(sheet)])
    /\ ret' = Some(FALSE)
    /\ pc' = "done"
    /\ UNCHANGED <<err, target_row>>
    /\ UNCHANGED <<canonVars, equivVars, loopVars, opVars, cacheVars>>
    /\ UNCHANGED <<sheetVars, argVars, appVars, resolveVars, readVars, concVars>>

\* lines 368-396: the grid is fetched and no row holds the order number
UpdFetchNotFound ==
    /\ pc = "fetch"
    /\ try_i < max_tries
    /\ sheet # <<>>
    /\ ColOrderOf(sheet) # None /\ ColStatusOf(sheet) # None
    /\ TargetRowOf(sheet) = None
    /\ rows' = Some(sheet)
    /\ col_order' = ColOrderOf(sheet)
    /\ col_status' = ColStatusOf(sheet)
    /\ col_extra' = ColExtraOf(sheet)
    /\ log' = Append(log, [event |-> NotFoundEvent, order_no |-> order_no])
    /\ ret' = Some(FALSE)
    /\ pc' = "done"
    /\ UNCHANGED <<err, target_row>>
    /\ UNCHANGED <<canonVars, equivVars, loopVars, opVars, cacheVars>>
    /\ UNCHANGED <<sheetVars, argVars, appVars, resolveVars, readVars, concVars>>

\* lines 368-393: the grid is fetched and a row holds the order number
UpdFetchFound ==
    /\ pc = "fetch"
    /\ try_i < max_tries
    /\ sheet # <<>>
    /\ ColOrderOf(sheet) # None /\ ColStatusOf(sheet) # None
    /\ TargetRowOf(sheet) # None
    /\ rows' = Some(sheet)
    /\ col_order' = ColOrderOf(sheet)
    /\ col_status' = ColStatusOf(sheet)
    /\ col_extra' = ColExtraOf(sheet)
    /\ target_row' = TargetRowOf(sheet)
    /\ pc' = "write_status"
    /\ try_i' = NextLoop(try_i)
    /\ UNCHANGED <<ret, err, log, max_tries, slept>>
    /\ UNCHANGED <<canonVars, equivVars, opVars, cacheVars>>
    /\ UNCHANGED <<sheetVars, argVars, appVars, resolveVars, readVars, concVars>>

\* line 368: get_all_values raises
UpdFetchFails ==
    /\ pc = "fetch"
    /\ RemoteFails(<<"get_all_values">>)
    /\ UNCHANGED <<canonVars, equivVars, opVars, cacheVars, updVars, appVars, resolveVars, readVars, concVars>>

\* one invocation of ws.update_cell
WriteCall(line, r, c, value, applied) ==
    [line |-> line, row |-> r, col |-> c, value |-> value, applied |-> applied]

\* a call that never writes the extra cell
WritesExtraNever == FALSE

\* line 399: extra is not None and col_extra
WritesExtra == extra # None /\ col_extra # None

\* lines 398-403: the status cell is written
UpdStatusWritten ==
    /\ pc = "write_status"
    /\ try_i < max_tries
    /\ sheet' = UpdateCell(sheet, target_row[1], col_status[1], status)
    /\ writes' = Append(writes,
                        WriteCall(398, target_row[1], col_status[1], status, TRUE))
    /\ IF WritesExtra
       THEN /\ pc' = "write_extra"
            /\ try_i' = NextLoop(try_i)
            /\ UNCHANGED <<ret, log>>
       ELSE /\ log' = Append(log, [event |-> UpdatedEvent, row |-> target_row[1],
                                   order_no |-> order_no, status |-> status])
            /\ ret' = Some(TRUE)
            /\ pc' = "done"
            /\ UNCHANGED try_i
    /\ UNCHANGED <<err, max_tries, slept, sheet0>>
    /\ UNCHANGED <<canonVars, equivVars, opVars, cacheVars, argVars, localVars,
                 appVars, resolveVars, readVars, concVars>>

\* line 398: update_cell raises
UpdStatusFails ==
    /\ pc = "write_status"
    /\ RemoteFails(<<"update_cell", target_row[1], col_status[1]>>)
    /\ writes' = Append(writes,
                        WriteCall(398, target_row[1], col_status[1], status, FALSE))
    /\ UNCHANGED <<sheet, sheet0>>
    /\ UNCHANGED <<canonVars, equivVars, opVars, cacheVars, argVars, localVars,
                 appVars, resolveVars, readVars, concVars>>

\* lines 400-403: the extra cell is written
UpdExtraWritten ==
    /\ pc = "write_extra"
    /\ try_i < max_tries
    /\ sheet' = UpdateCell(sheet, target_row[1], col_extra[1], extra[1])
    /\ writes' = Append(writes,
                        WriteCall(400, target_row[1], col_extra[1], extra[1], TRUE))
    /\ log' = Append(log, [event |-> UpdatedEvent, row |-> target_row[1],
                           order_no |-> order_no, status |-> status])
    /\ ret' = Some(TRUE)
    /\ pc' = "done"
    /\ UNCHANGED <<err, sheet0>>
    /\ UNCHANGED <<canonVars, equivVars, loopVars, opVars, cacheVars>>
    /\ UNCHANGED <<argVars, localVars, appVars, resolveVars, readVars, concVars>>

\* line 400: update_cell raises
UpdExtraFails ==
    /\ pc = "write_extra"
    /\ RemoteFails(<<"update_cell", target_row[1], col_extra[1]>>)
    /\ writes' = Append(writes,
                        WriteCall(400, target_row[1], col_extra[1], extra[1], FALSE))
    /\ UNCHANGED <<sheet, sheet0>>
    /\ UNCHANGED <<canonVars, equivVars, opVars, cacheVars, argVars, localVars,
                 appVars, resolveVars, readVars, concVars>>

UpdateNext ==
    \/ UpdOpenWs
    \/ UpdOpenWsFails
    \/ UpdFetchEmpty
    \/ UpdFetchNoHeaders
    \/ UpdFetchNotFound
    \/ UpdFetchFound
    \/ UpdFetchFails
    \/ UpdStatusWritten
    \/ UpdStatusFails
    \/ UpdExtraWritten
    \/ UpdExtraFails

SpecUpdate == UpdateInit /\ [][UpdateNext]_vars

\* ------------------------------------------------------------------------
\* append_order (gs_client.py 319-357) on an orders sheet
\* ------------------------------------------------------------------------

OrderNoCanonText == <<"o", "r", "d", "e", "r", " ", "n", "o">>
FooCanonText == <<"f", "o", "o">>

\* the dicts a caller passes: by field name, by header text, by canonical
\* header text, by both spellings of an unknown header, by field name and
\* header text at once, with None under a field name and under a header
\* text, and empty
AppendDicts ==
    {order_no_key :> T9 @@ status_key :> PAID,
     order_no_key :> PyNone @@ FooHdr :> PyNone,
     OrderNoHdr :> T9 @@ StatusHdr :> PAID,
     OrderNoCanonText :> T9,
     FooHdr :> T1 @@ FooCanonText :> T9,
     order_no_key :> T9 @@ OrderNoHdr :> T1,
     EmptyDict}

AppendLists == {<<T9, PAID>>}

AppendInputs ==
    {[kind |-> "dict", items |-> d] : d \in AppendDicts} \cup
    {[kind |-> "list", items |-> l] : l \in AppendLists}

\* the sheets an append may find: no row at all, or a header row and rows
AppendGrids ==
    {<<>>} \cup
    {<<hd>> \o d : hd \in UpdateHeaders,
                   d \in UNION {[1..n -> {<<T1, PENDING>>}] : n \in 0..MaxRows}}

SheetName == <<"o", "r", "d", "e", "r", "s">>

\* the A1 name of column k of the sheet
ColumnLetter(k) == UpperCase[k]

\* "orders!A<n>": the range of one written cell
CellRange(n) == SheetName \o <<"!", "A">> \o IntToStr(n)

\* "orders!A<n>:<L><n>": the range of the written cells of row n up to column k
SpanRange(n, k) ==
    CellRange(n) \o <<":", ColumnLetter(k)>> \o IntToStr(n)

\* a range text that names no cell
GarbledRange == <<"?">>

\* the updatedRange the store reports for a row of w cells written at row n
WrittenRange(n, w) ==
    IF w = 0 THEN <<>>
    ELSE IF w = 1 THEN CellRange(n)
    ELSE SpanRange(n, w)

\* what line 346 may read: the range of the written cells, no range at all,
\* or a text that is not a range
ReportedRanges(n, w) == {WrittenRange(n, w), <<>>, GarbledRange}

AppendEvent(rg) == [event |-> "append_order", updated_range |-> rg]

AppendInit ==
    /\ sheet \in AppendGrids
    /\ sheet0 = sheet
    /\ writes = <<>>
    /\ row \in AppendInputs
    /\ headers_raw = None /\ ordered = None /\ updated_range = None
    /\ order_no = <<>> /\ status = <<>> /\ extra = None
    /\ rows = None /\ col_order = None /\ col_status = None
    /\ col_extra = None /\ target_row = None
    /\ pc = "open" /\ ret = None /\ err = None /\ log = <<>>
    /\ max_tries = DefaultTries /\ try_i = 0 /\ slept = <<>>
    /\ fail_first = 0 /\ calls = 0
    /\ canon_in = None /\ canon_once = None /\ canon_twice = None
    /\ header = <<>> /\ spelling = <<>> /\ edits = 0 /\ compared = None
    /\ _CACHE = NoEntries /\ now = 0 /\ got = None /\ latest = NoEntries
    /\ aliases = <<>> /\ canon_to_key = None /\ hdr_list = <<>> /\ norm = None
    /\ wsname = "products" /\ heap = [o \in ObjIds |-> None]
    /\ running = 1 /\ parked = NoContext

\* line 325
AppOpenWs ==
    /\ pc = "open"
    /\ log' = log \o OpenWsEvents("orders")
    /\ pc' = "headers"
    /\ try_i' = NextLoop(try_i)
    /\ UNCHANGED <<ret, err, max_tries, slept>>
    /\ UNCHANGED <<canonVars, equivVars, opVars, cacheVars, updVars, appVars, resolveVars, readVars, concVars>>

\* lines 52, 68: the credentials file or the sheet id is missing
AppOpenWsFails ==
    /\ pc = "open"
    /\ err' = Some(OpError("open_sheet", 1))
    /\ pc' = "done"
    /\ UNCHANGED <<ret, log>>
    /\ UNCHANGED <<canonVars, equivVars, loopVars, opVars, cacheVars, updVars, appVars, resolveVars, readVars, concVars>>

\* lines 326-343: the header row is fetched and the row to append is built
AppHeadersRead ==
    /\ pc = "headers"
    /\ try_i < max_tries
    /\ headers_raw' = Some(RowValues1(sheet))
    /\ ordered' = Some(BuildOrdered(row, RowValues1(sheet)))
    /\ pc' = "append"
    /\ try_i' = NextLoop(try_i)
    /\ UNCHANGED <<ret, err, log, max_tries, slept>>
    /\ UNCHANGED <<row, updated_range>>
    /\ UNCHANGED <<resolveVars, readVars, concVars>>
    /\ UNCHANGED <<canonVars, equivVars, opVars, cacheVars, updVars>>

\* line 305: row_values(1) raises
AppHeadersFails ==
    /\ pc = "headers"
    /\ RemoteFails(<<"row_values", 1>>)
    /\ UNCHANGED <<canonVars, equivVars, opVars, cacheVars, updVars, appVars, resolveVars, readVars, concVars>>

\* lines 345-357: the row is appended, the reported range is logged and parsed
AppAppended ==
    /\ pc = "append"
    /\ try_i < max_tries
    /\ \E rg \in ReportedRanges(Len(sheet) + 1, Len(ordered[1])) :
        /\ sheet' = Append(sheet, ordered[1])
        /\ updated_range' = Some(rg)
        /\ log' = Append(log, AppendEvent(rg))
        /\ ret' = Some(ParseRowIdx(rg))
    /\ pc' = "done"
    /\ UNCHANGED <<err, loopVars, sheet0, writes>>
    /\ UNCHANGED <<row, headers_raw, ordered>>
    /\ UNCHANGED <<resolveVars, readVars, concVars>>
    /\ UNCHANGED <<canonVars, equivVars, opVars, cacheVars, argVars, localVars>>

\* line 345: append_row raises
AppAppendFails ==
    /\ pc = "append"
    /\ RemoteFails(<<"append_row">>)
    /\ UNCHANGED <<canonVars, equivVars, opVars, cacheVars, updVars, appVars, resolveVars, readVars, concVars>>

AppendNext ==
    \/ AppOpenWs
    \/ AppOpenWsFails
    \/ AppHeadersRead
    \/ AppHeadersFails
    \/ AppAppended
    \/ AppAppendFails

SpecAppend == AppendInit /\ [][AppendNext]_vars

\* line 345: the store appends the row, and the response is lost on its way
\* back, so append_row raises (lines 88-93) after the row is in the sheet
AppAppendLostAck ==
    /\ pc = "append"
    /\ RemoteFails(<<"append_row">>)
    /\ sheet' = Append(sheet, ordered[1])
    /\ UNCHANGED <<sheet0, writes, argVars, localVars>>
    /\ UNCHANGED <<canonVars, equivVars, opVars, cacheVars, appVars, resolveVars, readVars, concVars>>

\* append_order against a store whose calls may fail before or after it
\* has applied them
AppendFaultsNext ==
    \/ AppOpenWs
    \/ AppOpenWsFails
    \/ AppHeadersRead
    \/ AppHeadersFails
    \/ AppAppended
    \/ AppAppendFails
    \/ AppAppendLostAck

SpecAppendFaults == AppendInit /\ [][AppendFaultsNext]_vars

\* ------------------------------------------------------------------------
\* Successive append_order and update_order_status calls on an orders sheet
\* whose header row is rearranged between calls (gs_client.py 319-403)
\* ------------------------------------------------------------------------

AllT1 == <<T1, T1, T1>>

\* the sheets the first call may find: a header row and one order
LiveGrids ==
    {<<hd>> \o d :
        hd \in {<<OrderNoHdr, StatusHdr>>,
                <<StatusFaHdr, OrderNoSnakeHdr, NotesHdr>>},
        d \in {<<<<T1, PENDING, OldNote>>>>, <<AllT1>>}}

LiveRows ==
    {[kind |-> "dict", items |-> order_no_key :> T9 @@ status_key :> PAID],
     [kind |-> "list", items |-> <<T9, PAID>>]}

\* row hdrs with the cells of columns i and j exchanged
SwapCells(hdrs, i, j) ==
    [k \in DOMAIN hdrs |-> IF k = i THEN hdrs[j]
                           ELSE IF k = j THEN hdrs[i] ELSE hdrs[k]]

LiveInit ==
    /\ sheet \in LiveGrids
    /\ sheet0 = sheet
    /\ writes = <<>>
    /\ order_no = <<>> /\ status = <<>> /\ extra = None
    /\ rows = None /\ col_order = None /\ col_status = None
    /\ col_extra = None /\ target_row = None
    /\ row = NoRow /\ headers_raw = None /\ ordered = None
    /\ updated_range = None
    /\ pc = "idle" /\ ret = None /\ err = None /\ log = <<>>
    /\ max_tries = DefaultTries /\ try_i = 0 /\ slept = <<>>
    /\ fail_first = 0 /\ calls = 0
    /\ canon_in = None /\ canon_once = None /\ canon_twice = None
    /\ header = <<>> /\ spelling = <<>> /\ edits = 0 /\ compared = None
    /\ _CACHE = NoEntries /\ now = 0 /\ got = None /\ latest = NoEntries
    /\ aliases = <<>> /\ canon_to_key = None /\ hdr_list = <<>> /\ norm = None
    /\ wsname = "products" /\ heap = [o \in ObjIds |-> None]
    /\ running = 1 /\ parked = NoContext

\* lines 360-367: update_order_status is called and opens the worksheet
LiveUpdateCalled ==
    /\ pc = "idle"
    /\ order_no' \in {T1, T9}
    /\ status' = PAID
    /\ extra' \in {None, Some(NewNote)}
    /\ log' = OpenWsEvents("orders")
    /\ pc' = "fetch"
    /\ try_i' = NextLoop(try_i)
    /\ UNCHANGED <<ret, err, max_tries, slept, sheetVars, localVars, appVars>>
    /\ UNCHANGED <<canonVars, equivVars, opVars, cacheVars>>
    /\ UNCHANGED <<resolveVars, readVars, concVars>>

\* lines 319-325: append_order is called and opens the worksheet; the sheet
\* grows by one order at most
LiveAppendCalled ==
    /\ pc = "idle"
    /\ Len(sheet) = Len(sheet0)
    /\ row' \in LiveRows
    /\ log' = OpenWsEvents("orders")
    /\ pc' = "headers"
    /\ try_i' = NextLoop(try_i)
    /\ UNCHANGED <<ret, err, max_tries, slept, updVars>>
    /\ UNCHANGED <<headers_raw, ordered, updated_range>>
    /\ UNCHANGED <<canonVars, equivVars, opVars, cacheVars>>
    /\ UNCHANGED <<resolveVars, readVars, concVars>>

\* lines 357, 370, 386, 396, 403: the call returns and its arguments and
\* locals are gone
LiveReturned ==
    /\ pc = "done"
    /\ pc' = "idle"
    /\ ret' = None /\ err' = None /\ log' = <<>>
    /\ writes' = <<>>
    /\ order_no' = <<>> /\ status' = <<>> /\ extra' = None
    /\ rows' = None /\ col_order' = None /\ col_status' = None
    /\ col_extra' = None /\ target_row' = None
    /\ row' = NoRow /\ headers_raw' = None /\ ordered' = None
    /\ updated_range' = None
    /\ UNCHANGED <<loopVars, sheet, sheet0>>
    /\ UNCHANGED <<canonVars, equivVars, opVars, cacheVars>>
    /\ UNCHANGED <<resolveVars, readVars, concVars>>

\* between two calls somebody exchanges two cells of the header row
HeadersReordered ==
    /\ pc = "idle"
    /\ \E i, j \in DOMAIN sheet[1] :
          /\ i < j
          /\ sheet' = [sheet EXCEPT ![1] = SwapCells(@, i, j)]
    /\ UNCHANGED <<callVars, loopVars, sheet0, writes>>
    /\ UNCHANGED <<canonVars, equivVars, opVars, cacheVars, argVars, localVars>>
    /\ UNCHANGED <<appVars, resolveVars, readVars, concVars>>

LiveNext ==
    \/ LiveUpdateCalled
    \/ LiveAppendCalled
    \/ LiveReturned
    \/ HeadersReordered
    \/ UpdFetchNotFound
    \/ UpdFetchFound
    \/ UpdStatusWritten
    \/ UpdExtraWritten
    \/ AppHeadersRead
    \/ AppAppended

SpecLive == LiveInit /\ [][LiveNext]_vars

\* ------------------------------------------------------------------------
\* Building an alias index and resolving a header row with it
\* (gs_client.py 157-160, 181-184, 187-194)
\* ------------------------------------------------------------------------

MaxCols == 2

code_key == <<"c", "o", "d", "e">>
sku_key == <<"s", "k", "u">>
name_key == <<"n", "a", "m", "e">>

CodeHdr == <<"C", "o", "d", "e">>
CodePaddedHdr == <<" ", "c", "o", "d", "e", " ">>
CodeFaHdr == <<"\\u06a9", "\\u062f">>
NameHdr == <<"N", "a", "m", "e">>
PriceRetailHdr ==
    <<"P", "r", "i", "c", "e", "_", "R", "e", "t", "a", "i", "l", " ", "(", "x", ")">>
ParenHdr == <<"(", "x", ")">>

\* alias tables in registration order: the products table, tables in which
\* two or three keys own an alias of one canonical form, a table without
\* such aliases, and the empty table
AliasTables ==
    {_PRODUCT_ALIASES,
     <<<<sku_key, {CodeHdr}>>, <<code_key, {code_key, CodeFaHdr}>>>>,
     <<<<code_key, {code_key, CodeFaHdr}>>, <<sku_key, {CodeHdr}>>>>,
     <<<<sku_key, {CodeHdr}>>, <<name_key, {NameHdr, CodePaddedHdr}>>,
       <<code_key, {code_key}>>>>,
     <<<<code_key, {CodeHdr}>>, <<name_key, {NameHdr}>>>>,
     <<>>}

ResolveHeaders ==
    {CodeHdr, CodePaddedHdr, CodeFaHdr, NameHdr, PriceRetailHdr, FooHdr,
     ParenHdr, <<>>}

HeaderRows == UNION {[1..n -> ResolveHeaders] : n \in 0..MaxCols}

ResolveInit ==
    /\ aliases \in AliasTables
    /\ hdr_list \in HeaderRows
    /\ canon_to_key = None /\ norm = None
    /\ pc = "build" /\ ret = None /\ err = None /\ log = <<>>
    /\ max_tries = DefaultTries /\ try_i = 0 /\ slept = <<>>
    /\ fail_first = 0 /\ calls = 0
    /\ canon_in = None /\ canon_once = None /\ canon_twice = None
    /\ header = <<>> /\ spelling = <<>> /\ edits = 0 /\ compared = None
    /\ _CACHE = NoEntries /\ now = 0 /\ got = None /\ latest = NoEntries
    /\ sheet = <<>> /\ sheet0 = <<>> /\ writes = <<>>
    /\ order_no = <<>> /\ status = <<>> /\ extra = None
    /\ rows = None /\ col_order = None /\ col_status = None
    /\ col_extra = None /\ target_row = None
    /\ row = NoRow /\ headers_raw = None /\ ordered = None
    /\ updated_range = None
    /\ wsname = "products" /\ heap = [o \in ObjIds |-> None]
    /\ running = 1 /\ parked = NoContext

\* lines 157-160 and 181-184: the reverse lookup is built from the table
BuildCanonToKey ==
    /\ pc = "build"
    /\ canon_to_key' = Some(BuildIndex(aliases, EmptyDict))
    /\ pc' = "normalize"
    /\ UNCHANGED <<ret, err, log, aliases, hdr_list, norm>>
    /\ UNCHANGED <<readVars, concVars>>
    /\ UNCHANGED <<canonVars, equivVars, loopVars, opVars, cacheVars, updVars, appVars>>

\* lines 187-194: the header row is resolved against the reverse lookup
NormalizeHeaders ==
    /\ pc = "normalize"
    /\ norm' = Some(NormalizeWith(canon_to_key[1], hdr_list))
    /\ pc' = "done"
    /\ UNCHANGED <<ret, err, log, aliases, hdr_list, canon_to_key>>
    /\ UNCHANGED <<readVars, concVars>>
    /\ UNCHANGED <<canonVars, equivVars, loopVars, opVars, cacheVars, updVars, appVars>>

ResolveNext ==
    \/ BuildCanonToKey
    \/ NormalizeHeaders

SpecResolve == ResolveInit /\ [][ResolveNext]_vars

\* ------------------------------------------------------------------------
\* read_products, read_config_bot, read_config_site (gs_client.py 230-298)
\* ------------------------------------------------------------------------

\* lines 208-209: the TTLs, in ticks of the model's clock
_TTL_PRODUCTS == MaxTTL
_TTL_CONFIGS == MaxTTL - 1

\* every read passing the TTL of the products worksheet
TTLOfProducts(name) == _TTL_PRODUCTS

\* lines 232, 283, 293: the TTL each read passes to _get_cache
TTLOf(name) == IF name = "products" THEN _TTL_PRODUCTS ELSE _TTL_CONFIGS

\* cell texts of the products worksheet
A1 == <<"A", "1">>
A2 == <<"A", "2">>
A3 == <<"A", "3">>
Widget == <<"W", "i", "d", "g", "e", "t">>

\* header rows: two aliased columns, a blank header between them, a header
\* that is blank once canonicalized, a name held by two columns, a Persian
\* alias beside an annotated one, and no header cell
ProductHeaders ==
    {<<CodeHdr, NameHdr>>,
     <<CodeHdr, <<>>, NameHdr>>,
     <<CodeHdr, ParenHdr>>,
     <<NameHdr, FooHdr, NameHdr>>,
     <<CodeFaHdr, PriceRetailHdr>>,
     <<>>}

\* data rows: full, shorter than the header, with an empty cell, empty, and
\* longer than the header
ProductRows ==
    {<<A1, Widget>>,
     <<A2>>,
     <<A3, <<>>>>,
     <<>>,
     <<A1, Widget, A2>>}

ProductGrids ==
    {<<>>} \cup
    {<<hd>> \o d : hd \in ProductHeaders,
                   d \in UNION {[1..n -> ProductRows] : n \in 0..MaxRows}}

\* cell texts of a key/value worksheet
KeyHdr == <<"k", "e", "y">>
ValueHdr == <<"v", "a", "l", "u", "e">>
KName == <<"k">>
KNamePadded == <<" ", "k", " ">>
XText == <<"x">>
TrueCapText == <<"T", "r", "u", "e">>
OpenBraceText == <<"{">>

\* the grids of a worksheet that a cached read may find
ReadGrids(name) ==
    IF name = "products"
    THEN {<<>>,
          <<<<CodeHdr, NameHdr>>>>,
          <<<<CodeHdr, NameHdr>>, <<A1, Widget>>>>,
          <<<<CodeHdr, NameHdr>>, <<A2>>, <<A3, <<>>>>>>}
    ELSE {<<>>,
          <<<<KeyHdr, ValueHdr>>, <<KName, XText>>>>,
          <<<<KeyHdr, ValueHdr>>, <<KNamePadded, TrueCapText>>, <<KName>>>>,
          <<<<KeyHdr, ValueHdr>>, <<KName, EmptyListText>>,
            <<XText, OpenBraceText>>>>}

\* lines 237-252 and 286: the payload a read builds from the fetched grid
ReadPayload(name, grid) ==
    IF name = "products"
    THEN IF grid = <<>> THEN <<>> ELSE ProductsData(grid)
    ELSE KvConf(grid)

\* lines 239, 250 and 261: the event a read logs after its fetch
ReadEvent(name, grid) ==
    IF name = "products"
    THEN [event |-> "read_products", count |-> Len(ReadPayload(name, grid))]
    ELSE [event |-> IF name = "config_bot" THEN "read_config_bot"
                    ELSE "read_config_site",
          keys |-> RowValues1(grid)]

\* the object a fetch stores in the cache, and the object it returns: the
\* same one, except on line 240-241, where two empty lists are created
StoredObj == "o1"
ReturnedObj(name, grid) ==
    IF name = "products" /\ grid = <<>> THEN "o2" ELSE StoredObj

\* what a caller may do to a payload it holds: empty it, or add an entry
CallerRecord == code_key :> XText
Mutations(name, value) ==
    IF name = "products"
    THEN {<<>>} \cup
         (IF \E k \in DOMAIN value : value[k] = CallerRecord THEN {}
          ELSE {Append(value, CallerRecord)})
    ELSE {EmptyDict, [k \in DOMAIN value \cup {code_key} |->
                         IF k = code_key THEN XText ELSE value[k]]}

\* lines 232, 283, 293: the cache lookup a read begins with, and the entry
\* it found
CacheLookup ==
    Some([key |-> wsname, ttl |-> TTLOf(wsname), at |-> now,
          value |-> _get_cache(_CACHE, wsname, TTLOf(wsname), now),
          entry |-> _CACHE[wsname]])

\* the objects still referenced once a call has returned and its result
\* is dropped: those the cache holds
CacheObjs == {_CACHE[k][1][2] : k \in {j \in CacheKeys : _CACHE[j] # None}}

ReadInit ==
    /\ wsname \in CacheKeys
    /\ sheet \in ReadGrids(wsname)
    /\ heap = [o \in ObjIds |-> None]
    /\ _CACHE = NoEntries /\ now = 0 /\ got = None /\ latest = NoEntries
    /\ pc = "call" /\ ret = None /\ err = None /\ log = <<>>
    /\ max_tries = DefaultTries /\ try_i = 0 /\ slept = <<>>
    /\ fail_first = 0 /\ calls = 0
    /\ sheet0 = <<>> /\ writes = <<>>
    /\ canon_in = None /\ canon_once = None /\ canon_twice = None
    /\ header = <<>> /\ spelling = <<>> /\ edits = 0 /\ compared = None
    /\ order_no = <<>> /\ status = <<>> /\ extra = None
    /\ rows = None /\ col_order = None /\ col_status = None
    /\ col_extra = None /\ target_row = None
    /\ row = NoRow /\ headers_raw = None /\ ordered = None
    /\ updated_range = None
    /\ aliases = <<>> /\ canon_to_key = None /\ hdr_list = <<>> /\ norm = None
    /\ running = 1 /\ parked = NoContext

\* lines 232-234, 283-285, 293-295: the cache holds a fresh entry
ReadCached ==
    /\ pc = "call"
    /\ _get_cache(_CACHE, wsname, TTLOf(wsname), now) # None
    /\ ret' = _get_cache(_CACHE, wsname, TTLOf(wsname), now)
    /\ got' = CacheLookup
    /\ pc' = "done"
    /\ UNCHANGED <<err, log, loopVars, opVars, _CACHE, now, latest, updVars>>
    /\ UNCHANGED <<canonVars, equivVars, appVars, resolveVars, readVars, concVars>>

\* lines 236, 259: the cache misses and the worksheet is opened
ReadOpenWs ==
    /\ pc = "call"
    /\ _get_cache(_CACHE, wsname, TTLOf(wsname), now) = None
    /\ log' = log \o OpenWsEvents(wsname)
    /\ calls' = calls + 1
    /\ pc' = "fetch"
    /\ try_i' = NextLoop(try_i)
    /\ got' = CacheLookup
    /\ UNCHANGED <<ret, err, max_tries, slept, fail_first, updVars>>
    /\ UNCHANGED <<_CACHE, now, latest>>
    /\ UNCHANGED <<canonVars, equivVars, appVars, resolveVars, readVars, concVars>>

\* lines 52, 68: the cache misses and the worksheet cannot be opened
ReadOpenWsFails ==
    /\ pc = "call"
    /\ _get_cache(_CACHE, wsname, TTLOf(wsname), now) = None
    /\ err' = Some(OpError("open_sheet", 1))
    /\ got' = CacheLookup
    /\ pc' = "done"
    /\ UNCHANGED <<ret, log, loopVars, opVars, _CACHE, now, latest, updVars>>
    /\ UNCHANGED <<canonVars, equivVars, appVars, resolveVars, readVars, concVars>>

\* lines 237-252, 260-278 and 287-288: the grid is fetched, the payload is
\* built, logged, stored with the time of the store, and returned
ReadFetched ==
    /\ pc = "fetch"
    /\ try_i < max_tries
    /\ rows' = Some(sheet)
    /\ calls' = calls + 1
    /\ log' = Append(log, ReadEvent(wsname, sheet))
    /\ heap' = [o \in ObjIds |->
                  IF o \in {StoredObj, ReturnedObj(wsname, sheet)}
                  THEN Some(ReadPayload(wsname, sheet)) ELSE None]
    /\ _CACHE' = _set_cache(_CACHE, wsname, StoredObj, now)
    /\ latest' = [latest EXCEPT
                     ![wsname] = Some(<<now, ReadPayload(wsname, sheet)>>)]
    /\ ret' = Some(ReturnedObj(wsname, sheet))
    /\ pc' = "done"
    /\ UNCHANGED <<err, loopVars, fail_first, now, got, wsname>>
    /\ UNCHANGED <<concVars>>
    /\ UNCHANGED <<sheetVars, argVars, col_order, col_status, col_extra, target_row>>
    /\ UNCHANGED <<canonVars, equivVars, appVars, resolveVars>>

\* lines 237, 260: get_all_values raises
ReadFetchFails ==
    /\ pc = "fetch"
    /\ RemoteFails(<<"get_all_values">>)
    /\ calls' = calls + 1
    /\ UNCHANGED <<fail_first, cacheVars, updVars>>
    /\ UNCHANGED <<canonVars, equivVars, appVars, resolveVars, readVars, concVars>>

\* the caller drops the result and reads the worksheet again
NextRead ==
    /\ pc = "done"
    /\ pc' = "call"
    /\ ret' = None /\ err' = None /\ log' = <<>>
    /\ try_i' = 0 /\ slept' = <<>> /\ calls' = 0
    /\ rows' = None /\ got' = None
    /\ heap' = [o \in ObjIds |-> IF o \in CacheObjs THEN heap[o] ELSE None]
    /\ UNCHANGED <<max_tries, fail_first, _CACHE, now, latest, wsname>>
    /\ UNCHANGED <<concVars>>
    /\ UNCHANGED <<sheetVars, argVars, col_order, col_status, col_extra, target_row>>
    /\ UNCHANGED <<canonVars, equivVars, appVars, resolveVars>>

\* the caller modifies the list or dict a read returned to it
CallerMutates ==
    /\ pc = "done"
    /\ ret # None
    /\ \E v \in Mutations(wsname, heap[ret[1]][1]) \ {heap[ret[1]][1]} :
          heap' = [heap EXCEPT ![ret[1]] = Some(v)]
    /\ UNCHANGED <<callVars, loopVars, opVars, cacheVars, updVars, wsname>>
    /\ UNCHANGED <<concVars>>
    /\ UNCHANGED <<canonVars, equivVars, appVars, resolveVars>>

\* the worksheet is edited at the remote store
RemoteChanges ==
    /\ \E grid \in ReadGrids(wsname) \ {sheet} : sheet' = grid
    /\ UNCHANGED <<sheet0, writes, argVars, localVars>>
    /\ UNCHANGED <<callVars, loopVars, opVars, cacheVars>>
    /\ UNCHANGED <<canonVars, equivVars, appVars, resolveVars, readVars, concVars>>

\* the monotonic clock advances, between calls or within one
ClockTick ==
    /\ now < MaxTime
    /\ now' = now + 1
    /\ UNCHANGED <<_CACHE, got, latest>>
    /\ UNCHANGED <<callVars, loopVars, opVars, updVars>>
    /\ UNCHANGED <<canonVars, equivVars, appVars, resolveVars, readVars, concVars>>

ReadNext ==
    \/ ReadCached
    \/ ReadOpenWs
    \/ ReadOpenWsFails
    \/ ReadFetched
    \/ ReadFetchFails
    \/ NextRead
    \/ CallerMutates
    \/ RemoteChanges
    \/ ClockTick

SpecRead == ReadInit /\ [][ReadNext]_vars

\* one read of a products worksheet that the cache does not hold
RecordsInit ==
    /\ wsname = "products"
    /\ sheet \in ProductGrids
    /\ heap = [o \in ObjIds |-> None]
    /\ _CACHE = NoEntries /\ now = 0 /\ got = None /\ latest = NoEntries
    /\ pc = "call" /\ ret = None /\ err = None /\ log = <<>>
    /\ max_tries = DefaultTries /\ try_i = 0 /\ slept = <<>>
    /\ fail_first = 0 /\ calls = 0
    /\ sheet0 = <<>> /\ writes = <<>>
    /\ canon_in = None /\ canon_once = None /\ canon_twice = None
    /\ header = <<>> /\ spelling = <<>> /\ edits = 0 /\ compared = None
    /\ order_no = <<>> /\ status = <<>> /\ extra = None
    /\ rows = None /\ col_order = None /\ col_status = None
    /\ col_extra = None /\ target_row = None
    /\ row = NoRow /\ headers_raw = None /\ ordered = None
    /\ updated_range = None
    /\ aliases = <<>> /\ canon_to_key = None /\ hdr_list = <<>> /\ norm = None
    /\ running = 1 /\ parked = NoContext

RecordsNext ==
    \/ ReadOpenWs
    \/ ReadOpenWsFails
    \/ ReadFetched
    \/ ReadFetchFails

SpecRecords == RecordsInit /\ [][RecordsNext]_vars

\* ------------------------------------------------------------------------
\* Two update_order_status calls running at once (gs_client.py 360-403)
\* ------------------------------------------------------------------------

SENT == <<"S", "E", "N", "T">>
OtherNote == <<"n", "2">>

\* the sheets two calls may find: both keys present, with a reordered header
\* and short rows, without a notes column and with a key held by two rows,
\* without a status column, and without any row
ConcurrentGrids ==
    {<<<<OrderNoHdr, StatusHdr, NotesHdr>>,
       <<T1, PENDING, OldNote>>, <<T9, PENDING, OldNote>>>>,
     <<<<StatusFaHdr, OrderNoSnakeHdr, NotesHdr>>,
       <<PENDING, T9>>, <<PENDING, T1Padded>>>>,
     <<<<OrderNoHdr, StatusHdr>>,
       <<T1, PENDING>>, <<T1, PENDING>>>>,
     <<<<OrderNoHdr, FooHdr>>, <<T1, PENDING>>>>,
     <<>>}

\* the locals and the position of the call the call variables belong to
CallContext ==
    [pc |-> pc, ret |-> ret, err |-> err, try_i |-> try_i,
     order_no |-> order_no, status |-> status, extra |-> extra, rows |-> rows,
     col_order |-> col_order, col_status |-> col_status,
     col_extra |-> col_extra, target_row |-> target_row]

\* a resumed call that finds the row number the other call computed
ResumedSharingTarget(ctx, cur) ==
    IF ctx.target_row # None /\ cur.target_row # None
    THEN [ctx EXCEPT !.target_row = cur.target_row]
    ELSE ctx

\* lines 367-393: the locals of a call are its own; a call that is resumed
\* finds them as it left them, whatever the other call (cur) did meanwhile
Resumed(ctx, cur) == ctx

ConcurrentInit ==
    /\ sheet \in ConcurrentGrids
    /\ sheet0 = sheet
    /\ writes = <<>>
    /\ running = 1
    /\ order_no = T1 /\ status = PAID
    /\ extra \in {None, Some(NewNote)}
    /\ \E key \in {T1, T9}, note \in {None, Some(OtherNote)} :
          parked = [NoContext EXCEPT !.pc = "open", !.order_no = key,
                                     !.status = SENT, !.extra = note]
    /\ rows = None /\ col_order = None /\ col_status = None
    /\ col_extra = None /\ target_row = None
    /\ pc = "open" /\ ret = None /\ err = None /\ log = <<>>
    /\ max_tries = DefaultTries /\ try_i = 0 /\ slept = <<>>
    /\ fail_first = 0 /\ calls = 0
    /\ canon_in = None /\ canon_once = None /\ canon_twice = None
    /\ header = <<>> /\ spelling = <<>> /\ edits = 0 /\ compared = None
    /\ _CACHE = NoEntries /\ now = 0 /\ got = None /\ latest = NoEntries
    /\ row = NoRow /\ headers_raw = None /\ ordered = None
    /\ updated_range = None
    /\ aliases = <<>> /\ canon_to_key = None /\ hdr_list = <<>> /\ norm = None
    /\ wsname = "products" /\ heap = [o \in ObjIds |-> None]

\* the scheduler parks the running call and resumes the other one
Switch ==
    /\ parked.pc # "done"
    /\ running' = 3 - running
    /\ parked' = CallContext
    /\ LET ctx == Resumed(parked, CallContext)
       IN  /\ pc' = ctx.pc /\ ret' = ctx.ret /\ err' = ctx.err
           /\ try_i' = ctx.try_i
           /\ order_no' = ctx.order_no /\ status' = ctx.status
           /\ extra' = ctx.extra /\ rows' = ctx.rows
           /\ col_order' = ctx.col_order /\ col_status' = ctx.col_status
           /\ col_extra' = ctx.col_extra /\ target_row' = ctx.target_row
    /\ UNCHANGED <<log, max_tries, slept, sheetVars>>
    /\ UNCHANGED <<canonVars, equivVars, opVars, cacheVars, appVars, resolveVars, readVars>>

ConcurrentNext ==
    \/ UpdOpenWs
    \/ UpdFetchEmpty
    \/ UpdFetchNoHeaders
    \/ UpdFetchNotFound
    \/ UpdFetchFound
    \/ UpdStatusWritten
    \/ UpdExtraWritten
    \/ Switch

SpecConcurrent == ConcurrentInit /\ [][ConcurrentNext]_vars

\* ------------------------------------------------------------------------
\* Two read_products calls running at once while products are added to the
\* remote worksheet (gs_client.py 212-252)
\* ------------------------------------------------------------------------

\* the list object a call builds on line 245: one per call
ReaderObj(r) == IF r = 1 THEN "o1" ELSE "o2"

ReadersInit ==
    /\ wsname = "products"
    /\ sheet = <<<<CodeHdr, NameHdr>>>>
    /\ heap = [o \in ObjIds |-> None]
    /\ _CACHE = NoEntries /\ now = 0 /\ got = None /\ latest = NoEntries
    /\ running = 1
    /\ parked = [NoContext EXCEPT !.pc = "call"]
    /\ pc = "call" /\ ret = None /\ err = None /\ log = <<>>
    /\ max_tries = DefaultTries /\ try_i = 0 /\ slept = <<>>
    /\ fail_first = 0 /\ calls = 0
    /\ sheet0 = <<>> /\ writes = <<>>
    /\ canon_in = None /\ canon_once = None /\ canon_twice = None
    /\ header = <<>> /\ spelling = <<>> /\ edits = 0 /\ compared = None
    /\ order_no = <<>> /\ status = <<>> /\ extra = None
    /\ rows = None /\ col_order = None /\ col_status = None
    /\ col_extra = None /\ target_row = None
    /\ row = NoRow /\ headers_raw = None /\ ordered = None
    /\ updated_range = None
    /\ aliases = <<>> /\ canon_to_key = None /\ hdr_list = <<>> /\ norm = None

\* line 237: get_all_values returns the grid the store holds
ReadRowsFetched ==
    /\ pc = "fetch"
    /\ try_i < max_tries
    /\ rows' = Some(sheet)
    /\ calls' = calls + 1
    /\ pc' = "store"
    /\ UNCHANGED <<ret, err, log, loopVars, fail_first, cacheVars>>
    /\ UNCHANGED <<sheetVars, argVars, col_order, col_status, col_extra, target_row>>
    /\ UNCHANGED <<canonVars, equivVars, appVars, resolveVars, readVars, concVars>>

\* lines 243-252: the payload is built from the grid the call fetched,
\* logged, stored with the time of the store, and returned
ReadStored ==
    /\ pc = "store"
    /\ rows # None /\ rows[1] # <<>>
    /\ log' = Append(log, ReadEvent(wsname, rows[1]))
    /\ heap' = [heap EXCEPT
                   ![ReaderObj(running)] = Some(ReadPayload(wsname, rows[1]))]
    /\ _CACHE' = _set_cache(_CACHE, wsname, ReaderObj(running), now)
    /\ latest' = [latest EXCEPT
                     ![wsname] = Some(<<now, ReadPayload(wsname, rows[1])>>)]
    /\ ret' = Some(ReaderObj(running))
    /\ pc' = "done"
    /\ UNCHANGED <<err, loopVars, opVars, now, got, wsname>>
    /\ UNCHANGED <<updVars, concVars>>
    /\ UNCHANGED <<canonVars, equivVars, appVars, resolveVars>>

\* a product is added to the worksheet at the remote store
RemoteGrows ==
    /\ Len(sheet) <= MaxRows
    /\ sheet' = Append(sheet, <<A1, Widget>>)
    /\ UNCHANGED <<sheet0, writes, argVars, localVars>>
    /\ UNCHANGED <<callVars, loopVars, opVars, cacheVars>>
    /\ UNCHANGED <<canonVars, equivVars, appVars, resolveVars, readVars, concVars>>

ReadersNext ==
    \/ ReadCached
    \/ ReadOpenWs
    \/ ReadRowsFetched
    \/ ReadStored
    \/ Switch
    \/ RemoteGrows
    \/ ClockTick

SpecReaders == ReadersInit /\ [][ReadersNext]_vars

\* ------------------------------------------------------------------------
\* Claims
\* ------------------------------------------------------------------------

Min(a, b) == IF a <= b THEN a ELSE b

MinOf(S) == CHOOSE x \in S : \A y \in S : x <= y

RetryEvents == SelectSeq(log, LAMBDA e : e.event = "retry")

HasEvent(name) == \E k \in DOMAIN log : log[k].event = name

\* the columns of the header row of grid whose canonical form is among the
\* canonical forms of a field's aliases
ColsReadAs(grid, alias_canon) ==
    IF grid = <<>> THEN {}
    ELSE {c \in DOMAIN grid[1] : _canon(Some(grid[1][c])) \in alias_canon}

KeyCols == ColsReadAs(sheet0, OrderNoAliasCanon)
StatusCols == ColsReadAs(sheet0, StatusAliasCanon)
ExtraCols == ColsReadAs(sheet0, ExtraAliasCanon)

\* the data rows of the grid whose trimmed key cell is the trimmed order_no
MatchingRows ==
    LET kcs == KeyCols
    IN  IF kcs = {} THEN {}
        ELSE LET kc == MinOf(kcs)
             IN  {r \in 2..Len(sheet0) :
                     /\ kc \in DOMAIN sheet0[r]
                     /\ Strip(sheet0[r][kc]) = Strip(order_no)}

Width(grid) ==
    IF grid = <<>> THEN 0
    ELSE CHOOSE w \in {Len(grid[r]) : r \in DOMAIN grid} :
             \A r \in DOMAIN grid : Len(grid[r]) <= w

\* grid a is grid b but for the cells of changed, which hold what it says
SameBut(a, b, changed) ==
    /\ Len(a) = Len(b)
    /\ \A r \in DOMAIN a, c \in 1..(Width(a) + Width(b)) :
          Cell(a, r, c) = IF <<r, c>> \in DOMAIN changed THEN changed[<<r, c>>]
                          ELSE Cell(b, r, c)

StatusAttempts == SelectSeq(writes, LAMBDA w : w.line = 398)
ExtraAttempts == SelectSeq(writes, LAMBDA w : w.line = 400)

\* C1: with maxAttempts N >= 1 and an operation that fails on its first k
\* invocations and then succeeds, execute invokes the operation min(k+1, N)
\* times; if k < N it returns the success value after k retry events; if
\* k >= N it raises the error of the N-th invocation after N-1 retry
\* events; the operation is never invoked after it succeeded.
C1_RetryOutcome ==
    /\ calls <= fail_first + 1
    /\ pc \in {"returned", "raised"} =>
          /\ calls = Min(fail_first + 1, max_tries)
          /\ fail_first < max_tries =>
                /\ pc = "returned"
                /\ ret = Some(SuccessValue)
                /\ err = None
                /\ Len(RetryEvents) = fail_first
          /\ fail_first >= max_tries =>
                /\ pc = "raised"
                /\ err = Some(OpError(<<"fn">>, max_tries))
                /\ ret = None
                /\ Len(RetryEvents) = max_tries - 1

\* C1 witness: a budget of 5 is exhausted by an operation that fails 5 times
\* or more.
C1_Witness ==
    /\ pc = "raised"
    /\ max_tries = 5
    /\ fail_first >= 5
    /\ calls = 5
    /\ Len(log) = 4

\* C2: get(key, ttl) returns a payload only if the latest set(key) is not
\* older than ttl, and then the payload of that latest set; it returns
\* absent if the key was never set or its entry is older than ttl; a get
\* at the time of the set returns the value set.
C2_CacheExpiry ==
    got # None =>
        LET g == got[1]
            l == latest[g.key]
        IN  /\ g.value # None =>
                  /\ l # None
                  /\ g.at - l[1][1] <= g.ttl
                  /\ g.value = Some(l[1][2])
            /\ l = None => g.value = None
            /\ l # None /\ g.at - l[1][1] > g.ttl => g.value = None
            /\ l # None /\ g.at = l[1][1] => g.value = Some(l[1][2])

\* C2 witness: a get that finds the entry expired, after an earlier set of
\* the same key.
C2_Witness ==
    /\ got # None
    /\ latest[got[1].key] # None
    /\ got[1].at - latest[got[1].key][1][1] > got[1].ttl
    /\ got[1].value = None

\* C3: when the key column and the status column resolve and a data row
\* holds the order number, update_order_status(order_no, status) without
\* extra returns True, and the grid is the grid before the call but for the
\* status cell of the first such row, which holds the new status.
C3_UpdateStatusOnMatch ==
    ( /\ pc = "done"
      /\ ret # None
      /\ extra = None
      /\ KeyCols # {}
      /\ StatusCols # {}
      /\ MatchingRows # {} )
    => /\ ret = Some(TRUE)
       /\ SameBut(sheet, sheet0,
                  <<MinOf(MatchingRows), MinOf(StatusCols)>> :> status)

\* C3 witness: a call without extra returned True where two rows hold the
\* order number.
C3_Witness ==
    /\ pc = "done"
    /\ ret = Some(TRUE)
    /\ extra = None
    /\ Cardinality(MatchingRows) >= 2
    /\ sheet # sheet0

\* C4: when the key and status columns resolve and no data row holds the
\* order number, update_order_status returns False, raises nothing, issues
\* no cell write, leaves the grid as it was, and logs the not-found event,
\* whose name is not that of the missing-header event.
C4_LookupMiss ==
    ( /\ pc = "done"
      /\ rows # None
      /\ KeyCols # {}
      /\ StatusCols # {}
      /\ MatchingRows = {} )
    => /\ ret = Some(FALSE)
       /\ err = None
       /\ writes = <<>>
       /\ sheet = sheet0
       /\ HasEvent(NotFoundEvent)
       /\ ~HasEvent(NoHeadersEvent)
       /\ NotFoundEvent # NoHeadersEvent

\* C4 witness: a miss on a grid with a data row too short to hold the key
\* column.
C4_Witness ==
    /\ pc = "done"
    /\ ret = Some(FALSE)
    /\ HasEvent(NotFoundEvent)
    /\ KeyCols # {}
    /\ \E r \in 2..Len(sheet0) : Len(sheet0[r]) < MinOf(KeyCols)

\* C5: for every fetched grid whose header row does not resolve the key
\* column or the status column, a grid without rows included,
\* update_order_status returns False, raises nothing, issues no cell write,
\* and logs an event that tells which of the two columns is missing.
C5_StructuralMismatch ==
    ( /\ pc = "done"
      /\ rows # None
      /\ KeyCols = {} \/ StatusCols = {} )
    => /\ ret = Some(FALSE)
       /\ err = None
       /\ writes = <<>>
       /\ \E k \in DOMAIN log :
             /\ log[k].event = NoHeadersEvent
             /\ (log[k].order_col = None) <=> (KeyCols = {})
             /\ (log[k].status_col = None) <=> (StatusCols = {})

\* C6: the status write completes before the extra write is first
\* attempted; each of the two writes has its own budget of attempts; when
\* the extra write fails on all its attempts, update_order_status raises
\* the error of the last attempt, the status cell holds the new status and
\* the extra cell is as it was.
C6_PartialFailure ==
    /\ \A k \in DOMAIN writes :
          writes[k].line = 400 =>
              /\ writes[k - 1].line = 400 \/ writes[k - 1].applied
              /\ \E j \in 1..(k - 1) : writes[j].line = 398 /\ writes[j].applied
    /\ Len(StatusAttempts) <= max_tries
    /\ Len(ExtraAttempts) <= max_tries
    /\ pc = "write_extra" => Len(ExtraAttempts) = try_i
    /\ ( /\ Len(ExtraAttempts) = max_tries
         /\ \A k \in DOMAIN ExtraAttempts : ~ExtraAttempts[k].applied )
       => /\ pc = "done"
          /\ ret = None
          /\ err = Some(OpError(<<"update_cell", target_row[1], col_extra[1]>>,
                                max_tries))
          /\ SameBut(sheet, sheet0,
                     <<target_row[1], col_status[1]>> :> status)
    /\ ( /\ pc = "done"
         /\ err # None
         /\ ExtraAttempts # <<>> )
       => Len(ExtraAttempts) = max_tries

\* C6 witness: the extra write used up its budget after a status write that
\* succeeded on its third attempt.
C6_Witness ==
    /\ pc = "done"
    /\ err # None
    /\ Len(StatusAttempts) = 3
    /\ Len(ExtraAttempts) = max_tries
    /\ Cell(sheet, target_row[1], col_status[1]) = status
    /\ Cell(sheet0, target_row[1], col_status[1]) # status

\* the canonical forms of the aliases of each entry of _ORDER_ALIASES
OrderAliasCanon ==
    [k \in DOMAIN _ORDER_ALIASES |->
        {_canon(Some(a)) : a \in _ORDER_ALIASES[k][2]}]

\* the field names that have an alias of canonical form c
FieldsNaming(c) ==
    {_ORDER_ALIASES[k][1] :
        k \in {j \in DOMAIN _ORDER_ALIASES : c \in OrderAliasCanon[j]}}

\* the name a header resolves to: its field name, or its canonical text when
\* no alias matches
ResolvedName(hdr) ==
    LET c == _canon(Some(hdr))
    IN  IF FieldsNaming(c) = {} THEN c ELSE CHOOSE f \in FieldsNaming(c) : TRUE

\* the mapping's value under the resolved name, else under the raw header
\* text, else the empty string
ResolvedThenRaw(d, hdr) ==
    IF ResolvedName(hdr) \in DOMAIN d THEN d[ResolvedName(hdr)]
    ELSE IF hdr \in DOMAIN d THEN d[hdr]
    ELSE <<>>

\* the mapping's value under the field name when the header has one and the
\* mapping holds it, else under the raw header text, else under the canonical
\* header text, else the empty string
FieldThenRawThenCanon(d, hdr) ==
    LET c == _canon(Some(hdr))
        held == FieldsNaming(c) \cap DOMAIN d
    IN  IF held # {} THEN d[CHOOSE f \in held : TRUE]
        ELSE IF hdr \in DOMAIN d THEN d[hdr]
        ELSE IF c \in DOMAIN d THEN d[c]
        ELSE <<>>

ByFieldName == order_no_key :> T9 @@ status_key :> PAID
ByCanonText == OrderNoCanonText :> T9

\* the row handed to append_row is the row the store holds last
SubmittedIsStored ==
    (pc = "done" /\ updated_range # None) => sheet = Append(sheet0, ordered[1])

\* C7: for a dict and any header row, the appended row has one value per
\* header cell in header order, the value under header i being the dict's
\* value under the name header i resolves to, else its value under the raw
\* header text, else the empty string; header ["Order No", "Status"] and
\* {order_no: T9, status: PAID} give [T9, PAID].
C7_AppendAlignment ==
    (ordered # None /\ row.kind = "dict") =>
        /\ Len(ordered[1]) = Len(headers_raw[1])
        /\ \A k \in DOMAIN headers_raw[1] :
              ordered[1][k] = ResolvedThenRaw(row.items, headers_raw[1][k])
        /\ (headers_raw[1] = <<OrderNoHdr, StatusHdr>> /\ row.items = ByFieldName)
              => ordered[1] = <<T9, PAID>>
        /\ SubmittedIsStored

\* C7 as it holds: the value under header i is the dict's value under the
\* field name of header i when the header has one and the dict holds it,
\* else the dict's value under the raw header text, else its value under the
\* canonical header text, else the empty string.
C7_AppendAlignmentAmended ==
    (ordered # None /\ row.kind = "dict") =>
        /\ Len(ordered[1]) = Len(headers_raw[1])
        /\ \A k \in DOMAIN headers_raw[1] :
              ordered[1][k] = FieldThenRawThenCanon(row.items, headers_raw[1][k])
        /\ (headers_raw[1] = <<OrderNoHdr, StatusHdr>> /\ row.items = ByFieldName)
              => ordered[1] = <<T9, PAID>>
        /\ SubmittedIsStored

\* C7 witness: a dict keyed by the canonical text of an aliased header has
\* been appended under the header row ["Order No", "Status"].
C7_Witness ==
    /\ pc = "done"
    /\ updated_range # None
    /\ row = [kind |-> "dict", items |-> ByCanonText]
    /\ headers_raw = Some(<<OrderNoHdr, StatusHdr>>)
    /\ ordered = Some(<<T9, <<>>>>)
    /\ sheet[Len(sheet)] = <<T9, <<>>>>

\* a range text that names the cells written at row n
WellFormedFor(rg, n) ==
    \/ rg = CellRange(n)
    \/ \E k \in DOMAIN UpperCase : rg = SpanRange(n, k)

\* C8: once append_row has succeeded, append_order does not raise; it
\* returns the 1-based number of the inserted row whenever the reported
\* range is well formed, a single cell or a single column included, and it
\* returns 0 only when the reported range is missing or cannot be parsed.
C8_AppendResult ==
    (pc = "done" /\ updated_range # None) =>
        /\ err = None
        /\ ret # None
        /\ WellFormedFor(updated_range[1], Len(sheet0) + 1)
              => ret = Some(Len(sheet0) + 1)
        /\ ret = Some(0)
              => ~WellFormedFor(updated_range[1], Len(sheet0) + 1)

\* the field names of table tbl that own an alias of canonical form c
FieldsNamingIn(tbl, c) ==
    {tbl[k][1] : k \in {j \in DOMAIN tbl :
                          \E a \in tbl[j][2] : _canon(Some(a)) = c}}

\* the field name of tbl registered first among those owning an alias of
\* canonical form c
FirstRegistered(tbl, c) ==
    tbl[MinOf({j \in DOMAIN tbl : \E a \in tbl[j][2] : _canon(Some(a)) = c})][1]

\* C11: every header of the row resolves, in its position, to a field name
\* that owns an alias of the header's canonical form, and to the canonical
\* form itself when no alias has it; no header is dropped and resolving
\* does not fail.
C11_AliasResolution ==
    /\ pc = "done" => norm # None /\ err = None
    /\ norm # None =>
        /\ Len(norm[1]) = Len(hdr_list)
        /\ \A k \in DOMAIN hdr_list :
              LET c == _canon(Some(hdr_list[k]))
                  owners == FieldsNamingIn(aliases, c)
              IN  IF owners = {} THEN norm[1][k] = c
                  ELSE norm[1][k] \in owners

\* C11 witness: under the products table a row of a Persian alias and an
\* unknown header has been resolved to the field name and the header's
\* canonical text.
C11_Witness ==
    /\ aliases = _PRODUCT_ALIASES
    /\ hdr_list = <<CodeFaHdr, FooHdr>>
    /\ norm = Some(<<code_key, FooCanonText>>)

\* C12: building the index from a table in which keys share a canonical
\* alias form does not fail, and a header of that form resolves to the key
\* registered first.
C12_FirstRegisteredWins ==
    /\ pc # "build" => canon_to_key # None /\ err = None
    /\ canon_to_key # None =>
          \A c \in DOMAIN canon_to_key[1] :
              canon_to_key[1][c] = FirstRegistered(aliases, c)
    /\ norm # None =>
          \A k \in DOMAIN hdr_list :
              LET c == _canon(Some(hdr_list[k]))
              IN  FieldsNamingIn(aliases, c) # {}
                      => norm[1][k] = FirstRegistered(aliases, c)

\* the name a products header resolves to: the key owning an alias of its
\* canonical form, or the canonical form itself
ResolvedProductName(hdr) ==
    LET c == _canon(Some(hdr))
        owners == FieldsNamingIn(_PRODUCT_ALIASES, c)
    IN  IF owners = {} THEN c ELSE CHOOSE f \in owners : TRUE

\* C13: a read of a grid with a header row and n data rows yields n records
\* in row order; each record has exactly the non-blank resolved names of the
\* header row as keys; under a name held by one column only, the value is
\* the row's cell of that column, or None when the row is too short or the
\* cell is the empty text.
C13_ReadRecordsMapping ==
    (pc = "done" /\ ret # None /\ rows # None /\ rows[1] # <<>>) =>
        LET grid == rows[1]
            data == heap[ret[1]][1]
            names == [k \in DOMAIN grid[1] |-> ResolvedProductName(grid[1][k])]
        IN  /\ Len(data) = Len(grid) - 1
            /\ \A j \in DOMAIN data :
                /\ DOMAIN data[j] = {names[k] : k \in DOMAIN names} \ {<<>>}
                /\ \A k \in DOMAIN names :
                      ( /\ names[k] # <<>>
                        /\ \A m \in DOMAIN names : names[m] = names[k] => m = k )
                      => data[j][names[k]] =
                            IF k <= Len(grid[j + 1]) /\ grid[j + 1][k] # <<>>
                            THEN grid[j + 1][k] ELSE PyNone
                /\ (grid[1] = <<CodeHdr, NameHdr>> /\ grid[j + 1] = <<A1, Widget>>)
                      => data[j] = (code_key :> A1 @@ name_key :> Widget)
                /\ (grid[1] = <<CodeHdr, NameHdr>> /\ grid[j + 1] = <<A2>>)
                      => data[j] = (code_key :> A2 @@ name_key :> PyNone)
                /\ (grid[1] = <<CodeHdr, NameHdr>> /\ grid[j + 1] = <<A3, <<>>>>)
                      => data[j] = (code_key :> A3 @@ name_key :> PyNone)

\* C13 witness: a grid with a blank header cell, a short row and a row with
\* an empty cell has been read into two records.
C13_Witness ==
    /\ pc = "done"
    /\ rows = Some(<<<<CodeHdr, <<>>, NameHdr>>, <<A2>>, <<A3, <<>>>>>>)
    /\ ret # None
    /\ heap[ret[1]] = Some(<<code_key :> A2 @@ name_key :> PyNone,
                             code_key :> A3 @@ name_key :> PyNone>>)

\* C9: every spelling obtained from a header by changing letter case,
\* swapping underscores and spaces, inserting or deleting U+200D, U+200C,
\* U+200E, U+200F or U+00A0, or appending a trailing parenthetical has the
\* canonical form of the header.
C9_SpellingsCanonicalizeAlike ==
    compared # None => compared[1][1] = compared[1][2]

\* C10: _canon is idempotent and total: its result is a string, applying it
\* to its own result changes nothing, and it returns the empty string for
\* None and for the empty string.
C10_CanonIdempotentTotal ==
    /\ canon_once # None => IsString(canon_once[1])
    /\ canon_once # None /\ (canon_in = None \/ canon_in = Some(<<>>)) =>
          canon_once[1] = <<>>
    /\ canon_twice # None => canon_twice[1] = canon_once[1]

\* C10 witness: a string that _canon changes to a non-empty text has been
\* canonicalized twice.
C10_Witness ==
    /\ canon_twice # None
    /\ canon_in # None
    /\ canon_once[1] # <<>>
    /\ canon_once[1] # canon_in[1]

\* the call variables of call p of two calls running at once
CallOf(p) == IF running = p THEN CallContext ELSE parked

\* the data rows of the sheet as the calls found it whose trimmed key cell is
\* the trimmed key
RowsMatchingKey(key) ==
    IF KeyCols = {} THEN {}
    ELSE {r \in 2..Len(sheet0) :
             /\ MinOf(KeyCols) \in DOMAIN sheet0[r]
             /\ Strip(sheet0[r][MinOf(KeyCols)]) = Strip(key)}

\* the cells call p is to write, with the values it is to write
CellsOf(p) ==
    LET c == CallOf(p)
        r == MinOf(RowsMatchingKey(c.order_no))
    IN  IF c.extra # None /\ ExtraCols # {}
        THEN (<<r, MinOf(StatusCols)>> :> c.status)
             @@ (<<r, MinOf(ExtraCols)>> :> c.extra[1])
        ELSE <<r, MinOf(StatusCols)>> :> c.status

\* the value of the write applied last among the writes of source line ln
LastApplied(ln) ==
    LET ws == SelectSeq(writes, LAMBDA w : w.line = ln /\ w.applied)
    IN  ws[Len(ws)].value

C15_BackoffSchedule ==
    /\ Len(log) = Len(RetryEvents)
    /\ Len(slept) = Len(RetryEvents)
    /\ Len(slept) <= max_tries - 1
    /\ \A k \in DOMAIN slept :
          /\ slept[k] = DefaultBase * 2 ^ (k - 1)
          /\ k > 1 => slept[k] = 2 * slept[k - 1]
          /\ RetryEvents[k].attempt = k
          /\ RetryEvents[k].sleep = slept[k]
          /\ RetryEvents[k].error = OpError(<<"fn">>, k)
    /\ pc = "retrying" => Len(slept) = calls
    /\ pc \in {"returned", "raised"} => Len(slept) = calls - 1

\* C15 witness: a budget of 5 has been used up, after the delays 1, 2, 4 and
\* 8 times the base delay.
C15_Witness ==
    /\ pc = "raised"
    /\ calls = 5
    /\ slept = <<DefaultBase, 2 * DefaultBase, 4 * DefaultBase, 8 * DefaultBase>>
    /\ Len(RetryEvents) = 4

\* the cell writes of the call that the worksheet carried out
AppliedWrites(ws) == SelectSeq(ws, LAMBDA w : w.applied)

\* C16: on a matched row, update_order_status carries out exactly one write
\* of the status cell, and a second write, of the extra cell of the same
\* row, if and only if extra is not None and an extra column resolves in the
\* header row; with extra given and no such column it returns True having
\* written the status cell only.
C16_NotesWriteCondition ==
    /\ ExtraAttempts # <<>> => /\ extra # None
                               /\ ExtraCols # {}
                               /\ Len(AppliedWrites(StatusAttempts)) = 1
    /\ (pc = "done" /\ ret = Some(TRUE)) =>
          LET st == AppliedWrites(StatusAttempts)
              ex == AppliedWrites(ExtraAttempts)
          IN  /\ MatchingRows # {}
              /\ Len(st) = 1
              /\ st[1].row = MinOf(MatchingRows)
              /\ st[1].col = MinOf(StatusCols)
              /\ st[1].value = status
              /\ Len(ex) = IF extra # None /\ ExtraCols # {} THEN 1 ELSE 0
              /\ Len(AppliedWrites(writes)) = Len(st) + Len(ex)
              /\ \A k \in DOMAIN ex : /\ ex[k].row = st[1].row
                                      /\ ex[k].col = MinOf(ExtraCols)
                                      /\ ex[k].value = extra[1]

\* C16 witness: extra was given, the header row has no extra column, and the
\* call returned True with the status cell as its only write.
C16_Witness ==
    /\ pc = "done"
    /\ ret = Some(TRUE)
    /\ extra # None
    /\ ExtraCols = {}
    /\ Len(writes) = 1
    /\ writes[1].line = 398

\* C16 witness: extra was given, an extra column resolves, and the call
\* returned True after a write of each cell.
C16_WitnessBoth ==
    /\ pc = "done"
    /\ ret = Some(TRUE)
    /\ Len(AppliedWrites(ExtraAttempts)) = 1
    /\ Len(AppliedWrites(StatusAttempts)) = 1

\* the first column of the header row the store holds now that reads as one
\* of alias_canon
LiveCol(alias_canon) == MinOf(ColsReadAs(sheet, alias_canon))

\* C17: in every append_order and update_order_status call the header row
\* the columns are computed from is fetched from the store during that call,
\* before the call writes anything: the written cells and the appended row
\* follow the header row as the store holds it during the call, whatever it
\* was during earlier calls, and the TTL cache is neither read nor filled.
C17_LiveHeaders ==
    /\ _CACHE = NoEntries /\ got = None
    /\ pc \in {"write_status", "write_extra"} \/ (pc = "done" /\ writes # <<>>) =>
          /\ rows # None
          /\ rows[1][1] = sheet[1]
          /\ col_order = Some(LiveCol(OrderNoAliasCanon))
          /\ col_status = Some(LiveCol(StatusAliasCanon))
    /\ pc # "idle" =>
          \A k \in DOMAIN writes :
             writes[k].col = IF writes[k].line = 398
                             THEN LiveCol(StatusAliasCanon)
                             ELSE LiveCol(ExtraAliasCanon)
    /\ pc = "append" \/ (pc = "done" /\ ordered # None) =>
          /\ headers_raw = Some(sheet[1])
          /\ ordered = Some(BuildOrdered(row, sheet[1]))
    /\ pc = "done" /\ updated_range # None => sheet[Len(sheet)] = ordered[1]

\* C17 witness: the header row is not the one the first call found, and a
\* call has written the status of a row in the column that holds the status
\* now, where an earlier call wrote it in another column.
C17_Witness ==
    /\ pc = "done"
    /\ rows # None
    /\ ret = Some(TRUE)
    /\ sheet[1] # sheet0[1]
    /\ Len(writes) = 1
    /\ writes[1].col = LiveCol(StatusAliasCanon)
    /\ writes[1].col # MinOf(StatusCols)
    /\ Cell(sheet, writes[1].row, MinOf(StatusCols)) = PAID

\* the TTL of a named worksheet
TTLNamed(name) ==
    IF name = "products" THEN _TTL_PRODUCTS
    ELSE IF name \in {"config_bot", "config_site"} THEN _TTL_CONFIGS
    ELSE 0

\* the cache holds an entry of the worksheet that is not older than its TTL
FreshEntry ==
    /\ _CACHE[wsname] # None
    /\ now - _CACHE[wsname][1][1] <= TTLNamed(wsname)

\* C18: a read that finds an entry of its worksheet not older than the TTL
\* returns the payload the entry holds and performs no remote operation; a
\* read that finds no entry, or one older than the TTL, goes to the store,
\* and when its fetch succeeds the entry is replaced as a whole, by the time
\* of the store and the payload built from the fetched grid, which is also
\* what the read returns, an empty grid included.
C18_CachedReadPath ==
    [][ /\ (pc = "call" /\ pc' # "call" /\ FreshEntry) =>
              /\ pc' = "done"
              /\ err' = None
              /\ ret' = Some(_CACHE[wsname][1][2])
              /\ calls' = calls
              /\ log' = log
              /\ _CACHE' = _CACHE
              /\ heap' = heap
        /\ (pc = "call" /\ pc' # "call" /\ ~FreshEntry) =>
              /\ ret' = None
              /\ _CACHE' = _CACHE
              /\ pc' = "fetch" \/ err' # None
        /\ (pc = "fetch" /\ pc' = "done" /\ ret' # None) =>
              /\ calls' > calls
              /\ _CACHE'[wsname] # None
              /\ _CACHE'[wsname][1][1] = now
              /\ heap'[_CACHE'[wsname][1][2]] = Some(ReadPayload(wsname, sheet))
              /\ heap'[ret'[1]] = Some(ReadPayload(wsname, sheet))
              /\ \A k \in CacheKeys \ {wsname} : _CACHE'[k] = _CACHE[k]
      ]_vars

\* C18 witness: a read found its entry older than the TTL, fetched a
\* worksheet that had become empty, and the entry holds the empty payload
\* and the time of the fetch.
C18_Witness ==
    /\ pc = "done"
    /\ ret # None
    /\ got # None
    /\ got[1].entry # None
    /\ got[1].value = None
    /\ rows = Some(<<>>)
    /\ _CACHE[wsname] # None
    /\ _CACHE[wsname][1][1] = now
    /\ _CACHE[wsname][1][1] > got[1].entry[1][1] + TTLNamed(wsname)
    /\ heap[_CACHE[wsname][1][2]] \in {Some(<<>>), Some(EmptyDict)}

\* C19: for every header row and every dict, a dict that lacks fields or
\* holds None under a key included, no element of the list handed to
\* append_row is None, and a position the dict gives no value for holds the
\* empty string.
C19_NeverWritesNull ==
    (ordered # None /\ row.kind = "dict") =>
        \A k \in DOMAIN ordered[1] :
           /\ ordered[1][k] # PyNone
           /\ ( /\ headers_raw[1][k] \notin DOMAIN row.items
                /\ _canon(Some(headers_raw[1][k])) \notin DOMAIN row.items
                /\ FieldsNaming(_canon(Some(headers_raw[1][k])))
                      \cap DOMAIN row.items = {} )
              => ordered[1][k] = <<>>

\* C20: a read within the TTL returns the data as the last fetch built it
\* from the remote grid, whatever a caller has done since to the list or
\* dict an earlier read returned to it.
C20_FreshSnapshots ==
    [][ (pc = "call" /\ pc' = "done" /\ ret' # None) =>
            /\ latest[wsname] # None
            /\ heap'[ret'[1]] = Some(latest[wsname][1][2])
      ]_vars

\* C21: an append_order call that returns has added exactly one row to the
\* orders sheet, the row it submitted, whatever the remote append did within
\* the retry budget, an attempt that failed after the store applied it and
\* was retried included.
C21_ExactlyOneRow ==
    (pc = "done" /\ ret # None) =>
        /\ Len(sheet) = Len(sheet0) + 1
        /\ sheet = Append(sheet0, ordered[1])

\* C22: when a read misses the cache, its entry absent or older than the
\* TTL, and the fetch fails on every attempt, the read raises the error of
\* the last attempt and returns no payload, the expired one included; the
\* cache is as the read found it, with no entry created, replaced or given
\* a new time; and the entry is still a miss for the read that follows. A
\* fetch that fails logs no read event, one that succeeds logs one.
C22_FailedRefresh ==
    [][ /\ (pc \in {"call", "fetch"} /\ ret' = None) => _CACHE' = _CACHE
        /\ (pc = "done" /\ pc' = "call") => _CACHE' = _CACHE
        /\ pc = "fetch" =>
              /\ got # None
              /\ got[1].value = None
              /\ _CACHE[wsname] = got[1].entry
        /\ (pc = "fetch" /\ pc' = "done" /\ log' = log) =>
              /\ try_i = max_tries - 1
              /\ ret' = None
              /\ err' = Some(OpError(<<"get_all_values">>, max_tries))
              /\ _CACHE'[wsname] = got[1].entry
              /\ heap' = heap
              /\ latest' = latest
        /\ (pc = "done" /\ err # None) =>
              /\ ret = None
              /\ ~FreshEntry
              /\ _get_cache(_CACHE, wsname, TTLNamed(wsname), now) = None
      ]_vars

\* C22 witness: a read found its entry older than the TTL, its fetch failed
\* five times, and it raised with the old entry still in the cache.
C22_Witness ==
    /\ pc = "done"
    /\ ret = None
    /\ err # None
    /\ err[1].invocation = 5
    /\ Len(slept) = 4
    /\ got # None
    /\ got[1].entry # None
    /\ got[1].value = None
    /\ _CACHE[wsname] = got[1].entry

\* the payload the cache entry of the worksheet holds, in cache store c and
\* heap h
CachedPayload(c, h) == h[c[wsname][1][2]][1]

\* C23: under every interleaving of two reads of a worksheet that changes
\* meanwhile, the cache entry is a pair of a time and the payload of one
\* fetch of the worksheet, and an entry whose payload was fetched from one
\* version of the worksheet is never replaced by one fetched from an older
\* version; each version of the worksheet has one product more than the
\* version before.
C23_ConcurrentReaders ==
    [][ /\ _CACHE[wsname] # None =>
              /\ _CACHE[wsname][1][1] <= now
              /\ \E n \in 1..Len(sheet) :
                    CachedPayload(_CACHE, heap) = ProductsData(SubSeq(sheet, 1, n))
        /\ (_CACHE[wsname] # None /\ _CACHE'[wsname] # None) =>
              Len(CachedPayload(_CACHE', heap')) >= Len(CachedPayload(_CACHE, heap))
      ]_vars

====
